---- MODULE Spec2Model ----
(***************************************************************************)
(* Model of the weather aggregation pipeline of src/src/api/weather_api.py *)
(* (get_weather_info and the parsers, converters and provider clients it   *)
(* calls).                                                                 *)
(*                                                                         *)
(* Conventions                                                             *)
(*   - a Python value that may be None is a sequence of length <= 1:       *)
(*     NoneVal is None, Some(v) is the value v;                            *)
(*   - a Python call ends in Return(v) or Raise(e), e the exception class; *)
(*   - time is counted in whole hours since the epoch; temperatures are    *)
(*     integers in hundredths of a degree (29315 is 293.15 K);             *)
(*   - a UV value is an integer in hundredths (201 is 2.01).               *)
(***************************************************************************)
EXTENDS Integers, Sequences, FiniteSets, TLC

VARIABLES
    pc,        \* position of the get_weather_info invocation
    city,      \* its argument
    now,       \* the wall clock (epoch hours) during the invocation
    requests,  \* the HTTP requests issued so far, in order
    data,      \* the current-conditions response (local `data`)
    parsed,    \* the snapshot under construction (local `parsed`)
    uv_value,  \* the looked-up UV value (local of parse_weather_data)
    forecast_data, \* the fetched 3-hour forecast (local `forecast_data`)
    daily_data,    \* the fetched daily forecast (local `daily_data`)
    outcome,   \* how the invocation ended: Return(..) or Raise(..)
    fn,        \* unit specification: the pure function under study
    input,     \* unit specification: its argument
    output,    \* unit specification: its outcome
    earlier,   \* the previous invocation: its inputs, requests and outcome
    controller, \* the WeatherController that calls get_weather_info
    session    \* the window's session: fetch_weather activations, requests, view

vars == <<pc, city, now, requests, data, parsed, uv_value, forecast_data, daily_data,
          outcome, fn, input, output, earlier, controller, session>>

aggVars == <<pc, city, now, requests, data, parsed, uv_value, forecast_data, daily_data,
             outcome>>
unitVars == <<fn, input, output>>
callerVars == <<earlier, controller, session>>

----------------------------------------------------------------------------
(* Python values and call outcomes *)

NoneVal == <<>>
Some(v) == <<v>>
IsNone(o) == o = <<>>
Val(o) == o[1]

Return(v) == [tag |-> "return", exc |-> "", value |-> v]
Raise(e) == [tag |-> "raise", exc |-> e, value |-> <<>>]
Returned(o) == o.tag = "return"
Raised(o) == o.tag = "raise"

Min(a, b) == IF a <= b THEN a ELSE b

----------------------------------------------------------------------------
(* Bounds of the model *)

\* the UV values examined run from 0.00 to MaxUvCenti / 100
MaxUvCenti == 1205
\* the weather codes examined run from -MaxCodeBelow to MaxCodeAbove
MaxCodeBelow == 10
MaxCodeAbove == 120
\* a daily response carries at most MaxDays dates
MaxDays == 30
\* a forecast response carries at most MaxItems items, the first of them
\* between MaxBack hours before and MaxAhead hours after the current hour
MaxItems == 9
MaxBack == 6
MaxAhead == 3
\* whole-degree readings from MaxFrost below to MaxHeat above 0 Celsius
MaxFrost == 40
MaxHeat == 50

----------------------------------------------------------------------------
(* uv_index_to_display: "{uv:.1f} ({cat})" *)

RECURSIVE Pow2Mod100(_)
Pow2Mod100(k) == IF k = 0 THEN 1 ELSE (2 * Pow2Mod100(k - 1)) % 100

RECURSIVE Pow2(_)
Pow2(k) == IF k = 0 THEN 1 ELSE 2 * Pow2(k - 1)

\* the binary exponent e of h/100: 2^e <= h/100 < 2^(e+1), for h > 0
BinExp(h) ==
    IF h >= 100
    THEN CHOOSE e \in 0..20 : 100 * Pow2(e) <= h /\ h < 100 * Pow2(e + 1)
    ELSE 0 - (CHOOSE j \in 1..20 : h * Pow2(j) >= 100 /\ h * Pow2(j - 1) < 100)

\* The format spec ".1f" applied to the binary64 value nearest to h/100,
\* as a number of tenths. A decimal tie (h ends in 5) is decided by the
\* double: exactly representable ties round half to even, the others go
\* the way the double's representation error points.
Format1f(h) ==
    LET q == h \div 10
        r == h % 10
    IN  IF r < 5 THEN q
        ELSE IF r > 5 THEN q + 1
        ELSE IF h % 50 = 25 THEN (IF q % 2 = 0 THEN q ELSE q + 1)
        ELSE LET rem == ((h % 100) * Pow2Mod100(52 - BinExp(h))) % 100
             IN  IF rem < 50 THEN q ELSE q + 1

NA == [num |-> <<>>, text |-> "N/A"]
UvText(s) == [num |-> <<>>, text |-> s]

\* variant: exclusive thresholds
uv_category_strict(uv) ==
    IF uv < 200 THEN "Low"
    ELSE IF uv < 500 THEN "Moderate"
    ELSE IF uv < 700 THEN "High"
    ELSE IF uv < 1000 THEN "Very High"
    ELSE "Extreme"

uv_category(uv) ==
    IF uv <= 200 THEN "Low"
    ELSE IF uv <= 500 THEN "Moderate"
    ELSE IF uv <= 700 THEN "High"
    ELSE IF uv <= 1000 THEN "Very High"
    ELSE "Extreme"

uv_index_to_display(uv) ==
    IF IsNone(uv) THEN NA
    ELSE [num |-> <<Format1f(Val(uv))>>, text |-> uv_category(Val(uv))]

----------------------------------------------------------------------------
(* wmo_to_condition *)

\* variant: the whole range 51..67 taken for rain
wmo_to_condition_rain_range(code) ==
    IF IsNone(code) \/ code = Some(0) THEN "clear"
    ELSE LET c == Val(code) IN
         IF c \in {1, 2, 3} THEN "clouds"
         ELSE IF c \in {45, 48} THEN "fog"
         ELSE IF c \in 51..67 \cup {80, 81, 82} THEN "rain"
         ELSE IF c \in {71, 73, 75, 77, 85, 86} THEN "snow"
         ELSE IF c \in {95, 96, 99} THEN "thunderstorm"
         ELSE "clouds"

wmo_to_condition(code) ==
    IF IsNone(code) \/ code = Some(0) THEN "clear"
    ELSE LET c == Val(code) IN
         IF c \in {1, 2, 3} THEN "clouds"
         ELSE IF c \in {45, 48} THEN "fog"
         ELSE IF c \in {51, 53, 55, 56, 57, 61, 63, 65, 66, 67, 80, 81, 82}
              THEN "rain"
         ELSE IF c \in {71, 73, 75, 77, 85, 86} THEN "snow"
         ELSE IF c \in {95, 96, 99} THEN "thunderstorm"
         ELSE IF c \in {52, 54} THEN "drizzle"
         ELSE "clouds"

----------------------------------------------------------------------------
(* parse_daily_forecast *)

\* range(min(15, len(times)))
DailyLimit == 15

Digits == <<"0", "1", "2", "3", "4", "5", "6", "7", "8", "9">>
IsDigit(c) == \E k \in 1..10 : Digits[k] = c
DigitOf(c) == (CHOOSE k \in 1..10 : Digits[k] = c) - 1
Num2(a, b) == 10 * DigitOf(a) + DigitOf(b)
Num4(a, b, c, d) == 1000 * DigitOf(a) + 100 * DigitOf(b) + Num2(c, d)

IsLeap(y) == (y % 4 = 0 /\ y % 100 # 0) \/ y % 400 = 0
DaysIn(y, m) ==
    IF m = 2 THEN (IF IsLeap(y) THEN 29 ELSE 28)
    ELSE IF m \in {4, 6, 9, 11} THEN 30 ELSE 31

\* datetime.strptime(date_str, '%Y-%m-%d') succeeds (on the zero-padded
\* ten-character form; every other string of the model is not a date)
Strptime_ok(s) ==
    /\ Len(s) = 10
    /\ s[5] = "-" /\ s[8] = "-"
    /\ \A k \in {1, 2, 3, 4, 6, 7, 9, 10} : IsDigit(s[k])
    /\ LET y == Num4(s[1], s[2], s[3], s[4])
           m == Num2(s[6], s[7])
           d == Num2(s[9], s[10])
       IN  y >= 1 /\ m \in 1..12 /\ d \in 1..DaysIn(y, m)

\* dt.strftime('%a'): the weekday of a proleptic Gregorian date
WeekdayNames == <<"Sun", "Mon", "Tue", "Wed", "Thu", "Fri", "Sat">>
MonthKey == <<0, 3, 2, 5, 0, 3, 5, 1, 4, 6, 2, 4>>
Weekday(y, m, d) ==
    LET yy == IF m < 3 THEN y - 1 ELSE y
    IN  WeekdayNames[((yy + yy \div 4 - yy \div 100 + yy \div 400
                       + MonthKey[m] + d) % 7) + 1]

\* lines 416-421: "Mon 27", or the raw string cut to 10 characters
day_label(date_str) ==
    IF Strptime_ok(date_str)
    THEN <<Weekday(Num4(date_str[1], date_str[2], date_str[3], date_str[4]),
                   Num2(date_str[6], date_str[7]),
                   Num2(date_str[9], date_str[10])),
           " ", date_str[9], date_str[10]>>
    ELSE IF Len(date_str) >= 10 THEN SubSeq(date_str, 1, 10) ELSE date_str

\* variant: no cap on the number of entries
DailyCount_uncapped(times) == Len(times)

DailyCount(times) == Min(DailyLimit, Len(times))

\* variant: the fog codes labelled mist
DailyCondition_mist(code) ==
    IF code \in {Some(45), Some(48)} THEN "mist" ELSE wmo_to_condition(code)

\* line 431
DailyCondition(code) == wmo_to_condition(code)

\* variant: a missing temperature defaults to 0, as a missing code does
DailyEntry_zero_fill(daily, i) ==
    [day |-> day_label(daily.time[i]),
     temperature_max |-> IF i <= Len(daily.tmax) THEN daily.tmax[i] ELSE Some(0),
     temperature_min |-> IF i <= Len(daily.tmin) THEN daily.tmin[i] ELSE Some(0),
     condition |-> DailyCondition(IF i <= Len(daily.code) THEN daily.code[i]
                                  ELSE Some(0))]

\* lines 423-432, for the Python index i - 1
DailyEntry(daily, i) ==
    [day |-> day_label(daily.time[i]),
     temperature_max |-> IF i <= Len(daily.tmax) THEN daily.tmax[i] ELSE NoneVal,
     temperature_min |-> IF i <= Len(daily.tmin) THEN daily.tmin[i] ELSE NoneVal,
     condition |-> DailyCondition(IF i <= Len(daily.code) THEN daily.code[i]
                                  ELSE Some(0))]

\* openmeteo_data.shape: "ok"; "no_daily" (no 'daily' key: every column
\* defaults to []); "time_null" ('time' is null: len() raises TypeError,
\* caught); "daily_not_object" ('daily' is a list: .get raises
\* AttributeError, which the except clause does not name)
parse_daily_forecast(openmeteo_data) ==
    IF openmeteo_data.shape = "daily_not_object" THEN Raise("AttributeError")
    ELSE IF openmeteo_data.shape = "time_null" THEN Return(<<>>)
    ELSE LET daily == IF openmeteo_data.shape = "no_daily"
                      THEN [time |-> <<>>, tmax |-> <<>>, tmin |-> <<>>, code |-> <<>>]
                      ELSE openmeteo_data.daily
         IN  Return([i \in 1..DailyCount(daily.time) |-> DailyEntry(daily, i)])

----------------------------------------------------------------------------
(* parse_hourly_forecast *)

\* forecast_data['list'][:8]
ForecastWindow == 8
\* variant: one slot short
HourlySlots_short == 24 - 1

\* range(24)
HourlySlots == 24
\* temp_kelvin - 273.15, in hundredths
KelvinOffset == 27315
\* the fallback of lines 333-334, in hundredths
FallbackTemp == 2000

\* markers of a malformed forecast item: item['weather'] is an empty list
\* (IndexError), item['weather'][0]['main'] is a number (.lower() raises
\* AttributeError)
NoWeather == "<no weather>"
NotText == "<number>"

RECURSIVE Gcd(_, _)
Gcd(a, b) == IF b = 0 THEN a ELSE Gcd(b, a % b)
Abs(a) == IF a < 0 THEN 0 - a ELSE a

\* a float temperature as the exact rational n/d in lowest terms, d > 0
Rat(n, d) ==
    LET g == Gcd(Abs(n), d)
    IN  IF n = 0 THEN [n |-> 0, d |-> 1] ELSE [n |-> n \div g, d |-> d \div g]

\* lines 267-286: the forecast points of the first 8 items, or the
\* exception the first malformed item raises
RECURSIVE ForecastPoints(_, _, _)
ForecastPoints(items, k, acc) ==
    IF k > Len(items) THEN Return(acc)
    ELSE IF items[k].main = NoWeather THEN Raise("IndexError")
    ELSE IF items[k].main = NotText THEN Raise("AttributeError")
    ELSE ForecastPoints(items, k + 1,
            Append(acc, [datetime |-> items[k].dt,
                         temperature |-> items[k].temp - KelvinOffset,
                         condition |-> items[k].main]))

\* lines 296-307: the scan for the bracketing points; the result holds
\* the indices of prev_point and next_point
RECURSIVE Bracket(_, _, _, _, _)
Bracket(points, target, j, prev, next) ==
    IF j > Len(points) THEN [prev |-> prev, next |-> next]
    ELSE IF points[j].datetime <= target
         THEN Bracket(points, target, j + 1, Some(j),
                      IF j + 1 <= Len(points) THEN Some(j + 1) ELSE next)
         ELSE [prev |-> prev, next |-> IF IsNone(next) THEN Some(j) ELSE next]

HourOfDay(t, tz) == (t + tz) % 24

HourlyPoint(target, tz, temp, condition) ==
    [time |-> <<HourOfDay(target, tz), 0>>,
     hour |-> HourOfDay(target, tz),
     temperature |-> temp,
     condition |-> condition]

\* variant: a tie goes to the previous point
NearestIsPrev_or_tie(hours, time_diff) == 2 * hours <= time_diff

\* line 327: hours_from_prev < time_diff / 2
NearestIsPrev(hours, time_diff) == 2 * hours < time_diff

\* variant: the previous point's temperature held until the next point
Interpolate_step(prev_temp, next_temp, hours, time_diff) == Rat(prev_temp, 1)

\* lines 320-322: ratio = hours_from_prev / time_diff;
\* temp = prev + (next - prev) * ratio, as an exact rational
Interpolate(prev_temp, next_temp, hours, time_diff) ==
    Rat(prev_temp * time_diff + (next_temp - prev_temp) * hours, time_diff)

\* lines 292-341: the slots i..23. The locals that outlive one iteration
\* are hourly_list, hours_from_prev (unbound until first assigned) and
\* condition (bound by the parsing loop to the last item's label).
RECURSIVE Slots(_, _, _, _, _, _, _)
Slots(points, current_hour, tz, i, hourly_list, hours_from_prev, condition) ==
    IF i >= HourlySlots THEN Return(hourly_list)
    ELSE
    LET target_hour == current_hour + i
        b == Bracket(points, target_hour, 1, NoneVal, NoneVal)
    IN  IF ~IsNone(b.prev) /\ IsNone(b.next) THEN Raise("KeyError")
        ELSE IF ~IsNone(b.next) /\ IsNone(b.prev) THEN Raise("KeyError")
        ELSE IF ~IsNone(b.prev) /\ ~IsNone(b.next)
        THEN LET prev_point == points[Val(b.prev)]
                 next_point == points[Val(b.next)]
                 time_diff == next_point.datetime - prev_point.datetime
                 hfp == IF time_diff > 0
                        THEN Some(target_hour - prev_point.datetime)
                        ELSE hours_from_prev
                 temp == IF time_diff > 0
                         THEN Interpolate(prev_point.temperature,
                                          next_point.temperature,
                                          Val(hfp), time_diff)
                         ELSE Rat(prev_point.temperature, 1)
             IN  IF IsNone(hfp) THEN Raise("UnboundLocalError")
                 ELSE LET cond == IF NearestIsPrev(Val(hfp), time_diff)
                                  THEN prev_point.condition
                                  ELSE next_point.condition
                      IN  Slots(points, current_hour, tz, i + 1,
                                Append(hourly_list,
                                       HourlyPoint(target_hour, tz, temp, cond)),
                                hfp, cond)
        ELSE Slots(points, current_hour, tz, i + 1,
                   Append(hourly_list,
                          HourlyPoint(target_hour, tz, Rat(FallbackTemp, 1), "Unknown")),
                   hours_from_prev, "Unknown")

Caught(exc) == exc \in {"KeyError", "IndexError", "TypeError"}

\* variant: the list is the one the previous invocation filled
hourly_list_kept ==
    IF ~IsNone(earlier) /\ Returned(Val(earlier).outcome)
          /\ ~IsNone(Val(earlier).outcome.value)
    THEN Val(Val(earlier).outcome.value).hourly_forecast
    ELSE <<>>

\* line 252: hourly_list = [], a new list in every call
hourly_list_new == <<>>

\* forecast_data.shape: "ok", or "no_list" (the response has no 'list' key)
parse_hourly_forecast(forecast, clock) ==
    IF forecast.shape = "no_list" \/ forecast.list = <<>> THEN Return(hourly_list_new)
    ELSE
    LET tz == forecast.timezone
        forecast_items == SubSeq(forecast.list, 1,
                                 Min(ForecastWindow, Len(forecast.list)))
        pts == ForecastPoints(forecast_items, 1, <<>>)
        res == IF Raised(pts) THEN pts
               ELSE Slots(pts.value, clock, tz, 0, hourly_list_new, NoneVal,
                          forecast_items[Len(forecast_items)].main)
    IN  IF Raised(res) /\ Caught(res.exc) THEN Return(<<>>) ELSE res

----------------------------------------------------------------------------
(* Provider clients: one HTTP request each; the response is the
   environment's choice. A response is [status, body]; status "ok" means
   the request succeeded and the body is parsed JSON. A client call ends,
   like every call, in Return(..) or Raise(..). *)

FailureModes == {"timeout", "connection", "http_error", "bad_json"}

\* requests.get, raise_for_status and response.json() (lines 29-31): the
\* decoded body, or the exception the failure raises
Attempt(response) ==
    CASE response.status = "ok" -> Return(Some(response.body))
      [] response.status = "timeout" -> Raise("Timeout")
      [] response.status = "connection" -> Raise("ConnectionError")
      [] response.status = "http_error" -> Raise("HTTPError")
      [] OTHER -> Raise("JSONDecodeError")

\* variant: only the exceptions of the requests library are caught
ClientCatches_requests_only(exc) ==
    exc \in {"Timeout", "ConnectionError", "HTTPError"}

\* the exception classes of the model, all derived from Exception
ExceptionClasses ==
    {"Timeout", "ConnectionError", "HTTPError", "JSONDecodeError",
     "AttributeError", "ValueError", "KeyError", "IndexError", "TypeError",
     "UnboundLocalError"}

\* the except clauses of a client end in `except Exception` (in the two
\* Open-Meteo clients it is the only clause)
ClientCatches(exc) == exc \in ExceptionClasses

\* the try statement of a client: a caught exception gives None
Guarded(o) == IF Raised(o) /\ ClientCatches(o.exc) THEN Return(NoneVal) ELSE o

\* lines 27-43
fetch_weather_data(response) == Guarded(Attempt(response))

\* lines 65-66: result.get('current', {}).get('uv_index'), as a float.
\* result.shape: "object"; "list" and "current_null" (.get raises
\* AttributeError); "no_current" and "empty" (the default {} has no
\* uv_index); "uv_text" (float() of a non-numeric string: ValueError)
UvExtract(result) ==
    CASE result.shape \in {"list", "current_null"} -> Raise("AttributeError")
      [] result.shape \in {"no_current", "empty"} -> Return(NoneVal)
      [] result.shape = "uv_text" -> Raise("ValueError")
      [] OTHER -> Return(result.uv_index)

\* lines 60-68
fetch_uv_index_from_openmeteo(response) ==
    LET got == Attempt(response) IN
    Guarded(IF Raised(got) THEN got ELSE UvExtract(Val(got.value)))

\* lines 213-231
fetch_hourly_forecast(response) == Guarded(Attempt(response))

\* lines 362-372
fetch_daily_forecast(response) == Guarded(Attempt(response))

\* Python truthiness of a fetched JSON object: None and {} are false
Truthy(fetched) == ~IsNone(fetched) /\ Val(fetched).shape # "empty"

----------------------------------------------------------------------------
(* calculate_uv_index_estimate *)

\* 'Clear' in weather_condition or 'Sun' in weather_condition, and
\* 'Cloud' in weather_condition, on the labels of the model
\* variant: 'Sun' left out of the test
HasClearOrSun_clear_only(label) == label \in {"Clear"}

HasClearOrSun(label) == label \in {"Clear", "Sunny"}
HasCloud(label) == label \in {"Clouds"}

\* `not sunrise`: None or 0
Falsy(t) == IsNone(t) \/ t = Some(0)

\* variant: no estimate outside daylight
calculate_uv_index_estimate_no_night(sunrise, sunset, weather_condition, clock) ==
    IF Falsy(sunrise) \/ Falsy(sunset) THEN NA
    ELSE IF Val(sunrise) <= clock /\ clock <= Val(sunset)
         THEN UvText("Low (1-3)") ELSE NA

\* datetime.now().hour is read in the machine's zone, taken to be UTC
calculate_uv_index_estimate(sunrise, sunset, weather_condition, clock) ==
    IF Falsy(sunrise) \/ Falsy(sunset) THEN NA
    ELSE LET current_hour == HourOfDay(clock, 0) IN
         IF Val(sunrise) <= clock /\ clock <= Val(sunset)
         THEN IF 10 <= current_hour /\ current_hour <= 16
              THEN IF HasClearOrSun(weather_condition) THEN UvText("High (7-9)")
                   ELSE IF HasCloud(weather_condition) THEN UvText("Moderate (4-6)")
                   ELSE UvText("Low (2-4)")
              ELSE IF (6 <= current_hour /\ current_hour < 10)
                      \/ (16 < current_hour /\ current_hour <= 20)
                   THEN UvText("Moderate (3-5)")
                   ELSE UvText("Low (1-3)")
         ELSE UvText("None (Night)")

----------------------------------------------------------------------------
(* parse_weather_data, split at its one blocking call (the UV lookup) *)

TruncDiv(a, b) == IF a >= 0 THEN a \div b ELSE 0 - ((0 - a) \div b)

\* The binary64 nearest to h/100 less h/100 itself, in hundredths of
\* 2^-p, for p at least the double's own grid exponent 52 - BinExp(h).
\* (A remainder of exactly 50 cannot occur: 2^q is a multiple of 4.)
DoubleErr(h, p) ==
    LET q == 52 - BinExp(h)
        rem == ((h % 100) * Pow2Mod100(q)) % 100
    IN  (IF rem < 50 THEN 0 - rem ELSE 100 - rem) * Pow2(p - q)

\* line 124: int(temp - 273.15) for the reading h/100 K. Both operands
\* are doubles on the grid 2^-p and their difference is exact, so the
\* result is the decimal difference moved by the two representation
\* errors; int() truncates toward zero, and the errors decide the result
\* when the decimal difference is a whole number.
IntCelsius(h) ==
    LET p == 52 - Min(BinExp(h), BinExp(KelvinOffset))
        err == DoubleErr(h, p) - DoubleErr(KelvinOffset, p)
        diff == h - KelvinOffset
        n == TruncDiv(diff, 100)
    IN  IF diff # 100 * n \/ err = 0 THEN n
        ELSE IF err < 0 THEN (IF n > 0 THEN n - 1 ELSE n)
        ELSE (IF n < 0 THEN n + 1 ELSE n)

\* data.coord.shape: "absent" (no 'coord' key), "object", or "list" (the
\* field is mis-typed: .get raises AttributeError)
\* variant: the latitude alone decides
HasCoordinates_lat_only(d) ==
    d.coord.shape = "object" /\ ~IsNone(d.coord.lat)

HasCoordinates(d) ==
    d.coord.shape = "object" /\ ~IsNone(d.coord.lat) /\ ~IsNone(d.coord.lon)

\* lines 121-139: the fields read before the UV block. A missing
\* 'weather' entry raises IndexError and a null temperature TypeError.
ParseFields(d) ==
    IF d.weather.main = NoWeather THEN Raise("IndexError")
    ELSE IF IsNone(d.main.temp) THEN Raise("TypeError")
    ELSE Return(
        [weather_condition |-> d.weather.main,
         description |-> d.weather.description,
         temperature |-> IntCelsius(Val(d.main.temp)),
         pressure |-> d.main.pressure,
         humidity |-> d.main.humidity,
         sunrise |-> IF d.sys.present THEN d.sys.sunrise ELSE NoneVal,
         sunset |-> IF d.sys.present THEN d.sys.sunset ELSE NoneVal,
         timezone |-> IF d.sys.present THEN Some(d.timezone) ELSE NoneVal,
         visibility |-> IF IsNone(d.visibility) THEN NoneVal
                        ELSE Some(Rat(Val(d.visibility), 1000))])

\* lines 142-146: what parse_weather_data does on reaching the UV block:
\* "raise" (an exception leaves the function), "none" (the except clause
\* returns None), "lookup" (the UV request is issued) or "estimate"
UvStep(d) ==
    LET f == ParseFields(d) IN
    IF Raised(f) THEN (IF Caught(f.exc) THEN "none" ELSE "raise")
    ELSE IF d.coord.shape = "list" THEN "raise"
    ELSE IF HasCoordinates(d) THEN "lookup"
    ELSE "estimate"

\* lines 452-456: where get_weather_info goes once the current-conditions
\* fetch has answered: "absent" when it yielded no data
\* variant: the `data is None` return left out
CurrentStep_unguarded(fetched) == IF IsNone(fetched) THEN "none" ELSE UvStep(Val(fetched))

CurrentStep(fetched) == IF IsNone(fetched) THEN "absent" ELSE UvStep(Val(fetched))

\* lines 148-155: uv_display from the looked-up value (None when no
\* lookup was made or it failed), the estimate standing in for "N/A"
\* variant: the estimate used whatever the lookup returned
ResolveUv_estimate_only(fields, uv, clock) ==
    calculate_uv_index_estimate(fields.sunrise, fields.sunset,
                                fields.weather_condition, clock)

ResolveUv(fields, uv, clock) ==
    LET uv_display == uv_index_to_display(uv) IN
    IF uv_display = NA
    THEN calculate_uv_index_estimate(fields.sunrise, fields.sunset,
                                     fields.weather_condition, clock)
    ELSE uv_display

WithUv(fields, uv, clock) ==
    fields @@ [uv_index |-> ResolveUv(fields, uv, clock)]

\* lines 97-160: parse_weather_data as a function of the response, of
\* what the UV lookup returns when it is made, and of the clock
parse_weather_data(d, uv, clock) ==
    LET step == UvStep(d) IN
    IF step = "raise" THEN Raise("AttributeError")
    ELSE IF step = "none" THEN Return(NoneVal)
    ELSE Return(Some(WithUv(ParseFields(d).value,
                            IF step = "lookup" THEN uv ELSE NoneVal, clock)))

----------------------------------------------------------------------------
(* Upstream payloads the model draws its inputs from *)

TwoDigits(d) == <<Digits[(d \div 10) + 1], Digits[(d % 10) + 1]>>

\* the i-th date of a daily response: 2026-11-i; in the "raw" variant the
\* second entry is the text n/a and the third carries a time of day
DateString(i, variant) ==
    IF variant = "raw" /\ i = 2 THEN <<"n", "/", "a">>
    ELSE <<"2", "0", "2", "6", "-", "1", "1", "-">> \o TwoDigits(i)
         \o (IF variant = "raw" /\ i = 3 THEN <<"T", "0", "6", ":", "0", "0">> ELSE <<>>)

CodeCycle == <<0, 2, 45, 61, 52, 71, 95, 4>>

DailyPayload(shape, n, nmax, nmin, ncode, variant) ==
    [shape |-> shape,
     daily |-> [time |-> [i \in 1..n |-> DateString(i, variant)],
                tmax |-> [i \in 1..nmax |-> IF i = 2 THEN NoneVal ELSE Some(1500 + 100 * i)],
                tmin |-> [i \in 1..nmin |-> Some(500 + 100 * i)],
                code |-> [i \in 1..ncode |-> IF i = 6 THEN NoneVal
                                             ELSE Some(CodeCycle[((i - 1) % 8) + 1])]]]

\* columns as long as the dates, one shorter, one longer, or empty
ColumnLens(n) == {0, n, n + 1} \cup (IF n > 0 THEN {n - 1} ELSE {})

DailyInputs ==
    UNION {{DailyPayload("ok", n, a, b, c, v) :
                a \in ColumnLens(n), b \in ColumnLens(n), c \in ColumnLens(n),
                v \in {"iso", "raw"}} : n \in 0..MaxDays}
    \cup {DailyPayload(sh, 3, 3, 3, 3, "iso") :
            sh \in {"no_daily", "time_null", "daily_not_object"}}

Labels == <<"Clear", "Clouds", "Rain", "Mist">>
\* epoch hours whose hour of day (UTC) is 9, 12 and 22
Clocks == {498225, 498228, 498238}
TzOffsets == {0, 0 - 5}
\* the hour of the window's session (12 h UTC)
SessionClock == CHOOSE c \in Clocks : c % 24 = 12
Gaps == {1, 2, 3}

\* the k-th item lies at first + the sum of k - 1 gaps, alternately g1 and g2
ItemOffset(k, first, g1, g2) ==
    first + ((k - 1) \div 2) * (g1 + g2) + (IF (k - 1) % 2 = 1 THEN g1 ELSE 0)

ForecastData(n, first, g1, g2, slope, tz, clock) ==
    [shape |-> "ok",
     timezone |-> tz,
     list |-> [k \in 1..n |->
                 [dt |-> clock + ItemOffset(k, first, g1, g2),
                  temp |-> 28315 + slope * 150 * (k % 3),
                  main |-> Labels[((k - 1) % 4) + 1]]]]

WithItemMain(f, k, m) == [f EXCEPT !.list[k].main = m]

HourlyInputs ==
    {[forecast_data |-> ForecastData(n, first, g1, g2, slope, tz, c), clock |-> c] :
        n \in 1..MaxItems, first \in (0 - MaxBack)..MaxAhead, g1 \in Gaps, g2 \in Gaps,
        slope \in {0 - 1, 1}, tz \in TzOffsets, c \in Clocks}
    \cup {[forecast_data |-> WithItemMain(ForecastData(3, 0, 3, 3, 1, 0, c), 2, m),
           clock |-> c] : m \in {NoWeather, NotText}, c \in Clocks}
    \cup {[forecast_data |-> [ForecastData(n, 0, 3, 3, 1, 0, c) EXCEPT !.shape = sh],
           clock |-> c] : n \in {0, 2}, sh \in {"ok", "no_list"}, c \in Clocks}

Describe(m) == IF m = "Clear" THEN "clear sky" ELSE IF m = "Clouds" THEN "few clouds"
               ELSE IF m = "Mist" THEN "mist" ELSE "light rain"

\* sunrise and sunset around the clock: daylight, night, or one missing
SysVariants(clock) ==
    {[present |-> FALSE, sunrise |-> NoneVal, sunset |-> NoneVal],
     [present |-> TRUE, sunrise |-> Some(clock - 3), sunset |-> Some(clock + 5)],
     [present |-> TRUE, sunrise |-> Some(clock - 15), sunset |-> Some(clock - 3)],
     [present |-> TRUE, sunrise |-> NoneVal, sunset |-> Some(clock + 5)],
     [present |-> TRUE, sunrise |-> Some(clock - 3), sunset |-> Some(0)]}

CoordVariants ==
    {[shape |-> "absent", lat |-> NoneVal, lon |-> NoneVal],
     [shape |-> "list", lat |-> NoneVal, lon |-> NoneVal],
     [shape |-> "object", lat |-> Some(5991), lon |-> NoneVal],
     [shape |-> "object", lat |-> Some(5991), lon |-> Some(1075)]}

Ok(body) == [status |-> "ok", body |-> body]
Failed(mode) == [status |-> mode, body |-> [shape |-> "empty"]]

CurrentResponses(clock) ==
    {Failed(m) : m \in FailureModes}
    \cup {Ok([shape |-> "object",
              weather |-> [main |-> m, description |-> Describe(m)],
              main |-> [temp |-> t, pressure |-> 1013, humidity |-> 65],
              sys |-> sy, timezone |-> 1, visibility |-> Some(10000),
              coord |-> co]) :
            m \in {"Clear", "Clouds", "Mist", NoWeather},
            t \in {Some(29315), NoneVal},
            sy \in SysVariants(clock), co \in CoordVariants}

UvResponses ==
    {Failed(m) : m \in FailureModes}
    \cup {Ok([shape |-> "object", uv_index |-> u]) :
            u \in {NoneVal, Some(0), Some(200), Some(701)}}
    \cup {Ok([shape |-> sh, uv_index |-> NoneVal]) :
            sh \in {"list", "current_null", "no_current", "empty", "uv_text"}}

ForecastResponses(clock) ==
    {Failed(m) : m \in FailureModes}
    \cup {Ok([ForecastData(0, 0, 3, 3, 1, 0, clock) EXCEPT !.shape = sh]) :
            sh \in {"empty", "no_list", "ok"}}
    \cup {Ok(ForecastData(n, first, 3, 3, 1, 1, clock)) :
            n \in {2, MaxItems}, first \in {0 - MaxBack, 0 - 1, 1}}
    \cup {Ok(WithItemMain(ForecastData(3, 0, 3, 3, 1, 0, clock), 2, m)) :
            m \in {NoWeather, NotText}}

DailyResponses ==
    {Failed(m) : m \in FailureModes}
    \cup {Ok(DailyPayload(sh, 3, 3, 3, 3, "iso")) :
            sh \in {"empty", "no_daily", "time_null", "daily_not_object"}}
    \cup {Ok(DailyPayload("ok", n, n, c, c, "raw")) : n \in {5, MaxDays}, c \in {0, 5}}

Cities == {<<>>, <<" ">>, <<"\t", " ", "\n">>, <<" ", "S", "t", " ", "I", "v", "e", "s", "\t">>}

----------------------------------------------------------------------------
(* Unit specification: the pure functions applied to bounded inputs *)

\* every hour of one day (UTC), from midnight
DayClocks == {498216 + h : h \in 0..23}
ConditionTexts == {"Clear", "Sunny", "Clouds", "Rain", "Mist"}
\* sunrise and sunset around the clock: daylight (also starting or ending
\* at this very hour), after sunset, before sunrise, or one unavailable
SunWindows(clock) ==
    {<<Some(clock - 3), Some(clock + 5)>>, <<Some(clock), Some(clock + 5)>>,
     <<Some(clock - 3), Some(clock)>>, <<Some(clock - 15), Some(clock - 3)>>,
     <<Some(clock + 1), Some(clock + 9)>>, <<NoneVal, Some(clock + 5)>>,
     <<Some(clock - 3), Some(0)>>}
EstimateInputs ==
    UNION {{[sunrise |-> sw[1], sunset |-> sw[2], weather_condition |-> c,
             clock |-> k] : sw \in SunWindows(k), c \in ConditionTexts}
           : k \in DayClocks}

\* Kelvin readings in hundredths: every whole degree Celsius in range,
\* and readings half a degree and a hundredth off a whole degree
Readings ==
    {KelvinOffset + 100 * n : n \in (0 - MaxFrost)..MaxHeat}
    \cup {KelvinOffset + 100 * n + f : n \in {0 - 20, 0 - 1, 0, 20},
                                       f \in {0 - 50, 0 - 1, 1, 50}}
SnapshotInputs ==
    {[data |-> [shape |-> "object",
                weather |-> [main |-> "Clear", description |-> "clear sky"],
                main |-> [temp |-> t, pressure |-> 1013, humidity |-> 65],
                sys |-> [present |-> TRUE, sunrise |-> Some(498228 - 3),
                         sunset |-> Some(498228 + 5)],
                timezone |-> 1, visibility |-> Some(10000), coord |-> co],
      uv |-> u, clock |-> 498228] :
        t \in {NoneVal} \cup {Some(h) : h \in Readings},
        co \in CoordVariants, u \in {NoneVal, Some(200)}}

UvValues == {NoneVal} \cup {Some(h) : h \in 0..MaxUvCenti}
WmoCodes == {NoneVal} \cup {Some(c) : c \in (0 - MaxCodeBelow)..MaxCodeAbove}

AggIdle ==
    /\ pc = "idle"
    /\ city = ""
    /\ now = 0
    /\ requests = <<>>
    /\ data = NoneVal
    /\ parsed = NoneVal
    /\ uv_value = NoneVal
    /\ forecast_data = NoneVal
    /\ daily_data = NoneVal
    /\ outcome = Raise("pending")

\* no window: no fetch_weather activation, no request made, nothing shown
NoSession == [frames |-> <<>>, log |-> <<>>, view |-> NoneVal]

\* no controller: get_weather_info is called directly
NoController ==
    [pc |-> "off", arg |-> <<>>, current_city |-> NoneVal,
     current_weather_data |-> NoneVal, events |-> <<>>, caught |-> NoneVal,
     result |-> NoneVal]

UnitInit ==
    /\ AggIdle
    /\ earlier = NoneVal
    /\ controller = NoController
    /\ session = NoSession
    /\ output = Raise("pending")
    /\ \/ fn = "uv_index_to_display" /\ input \in UvValues
       \/ fn = "wmo_to_condition" /\ input \in WmoCodes
       \/ fn = "parse_daily_forecast" /\ input \in DailyInputs
       \/ fn = "parse_hourly_forecast" /\ input \in HourlyInputs
       \/ fn = "calculate_uv_index_estimate" /\ input \in EstimateInputs
       \/ fn = "parse_weather_data" /\ input \in SnapshotInputs
       \/ fn = "fetch_weather_data"
            /\ input \in UNION {CurrentResponses(c) : c \in Clocks}
       \/ fn = "fetch_uv_index_from_openmeteo" /\ input \in UvResponses
       \/ fn = "fetch_hourly_forecast"
            /\ input \in UNION {ForecastResponses(c) : c \in Clocks}
       \/ fn = "fetch_daily_forecast" /\ input \in DailyResponses

ApplyUvDisplay ==
    /\ fn = "uv_index_to_display"
    /\ output = Raise("pending")
    /\ output' = Return(uv_index_to_display(input))
    /\ UNCHANGED <<fn, input, aggVars, callerVars>>

ApplyWmo ==
    /\ fn = "wmo_to_condition"
    /\ output = Raise("pending")
    /\ output' = Return([condition |-> wmo_to_condition(input)])
    /\ UNCHANGED <<fn, input, aggVars, callerVars>>

ApplyDaily ==
    /\ fn = "parse_daily_forecast"
    /\ output = Raise("pending")
    /\ output' = parse_daily_forecast(input)
    /\ UNCHANGED <<fn, input, aggVars, callerVars>>

ApplyHourly ==
    /\ fn = "parse_hourly_forecast"
    /\ output = Raise("pending")
    /\ output' = parse_hourly_forecast(input.forecast_data, input.clock)
    /\ UNCHANGED <<fn, input, aggVars, callerVars>>

ApplyEstimate ==
    /\ fn = "calculate_uv_index_estimate"
    /\ output = Raise("pending")
    /\ output' = Return(calculate_uv_index_estimate(input.sunrise, input.sunset,
                                                   input.weather_condition,
                                                   input.clock))
    /\ UNCHANGED <<fn, input, aggVars, callerVars>>

ApplyParseWeather ==
    /\ fn = "parse_weather_data"
    /\ output = Raise("pending")
    /\ output' = parse_weather_data(input.data, input.uv, input.clock)
    /\ UNCHANGED <<fn, input, aggVars, callerVars>>

ApplyFetchWeather ==
    /\ fn = "fetch_weather_data"
    /\ output = Raise("pending")
    /\ output' = fetch_weather_data(input)
    /\ UNCHANGED <<fn, input, aggVars, callerVars>>

ApplyFetchUv ==
    /\ fn = "fetch_uv_index_from_openmeteo"
    /\ output = Raise("pending")
    /\ output' = fetch_uv_index_from_openmeteo(input)
    /\ UNCHANGED <<fn, input, aggVars, callerVars>>

ApplyFetchHourly ==
    /\ fn = "fetch_hourly_forecast"
    /\ output = Raise("pending")
    /\ output' = fetch_hourly_forecast(input)
    /\ UNCHANGED <<fn, input, aggVars, callerVars>>

ApplyFetchDaily ==
    /\ fn = "fetch_daily_forecast"
    /\ output = Raise("pending")
    /\ output' = fetch_daily_forecast(input)
    /\ UNCHANGED <<fn, input, aggVars, callerVars>>

UnitNext ==
    \/ ApplyUvDisplay \/ ApplyWmo \/ ApplyDaily \/ ApplyHourly
    \/ ApplyEstimate \/ ApplyParseWeather
    \/ ApplyFetchWeather \/ ApplyFetchUv \/ ApplyFetchHourly \/ ApplyFetchDaily

SpecUnit == UnitInit /\ [][UnitNext]_vars

----------------------------------------------------------------------------
(* get_weather_info: one invocation, one action per blocking request *)

\* the whitespace str.strip() removes, among the characters of the model
IsSpace(c) == c \in {" ", "\t", "\n"}

RECURSIVE LStrip(_)
LStrip(s) == IF s # <<>> /\ IsSpace(Head(s)) THEN LStrip(Tail(s)) ELSE s

RECURSIVE RStrip(_)
RStrip(s) ==
    IF s # <<>> /\ IsSpace(s[Len(s)]) THEN RStrip(SubSeq(s, 1, Len(s) - 1)) ELSE s

\* variant: leading whitespace only
Strip_leading(s) == LStrip(s)

\* str.strip()
Strip(s) == RStrip(LStrip(s))

Request(endpoint, arg) == [endpoint |-> endpoint, arg |-> arg]

\* variant: the request sent a second time
Send_twice(log, endpoint, arg) ==
    Append(Append(log, Request(endpoint, arg)), Request(endpoint, arg))

\* requests.get(url, timeout=5), called once in each client: the request
\* joins the log of requests issued
Send(log, endpoint, arg) == Append(log, Request(endpoint, arg))

\* the upstream of a repeated invocation is a mock that replays: the same
\* name at the same instant, and for each endpoint the same response
Replays(field, value) ==
    IF IsNone(earlier) THEN TRUE ELSE Val(earlier)[field] = value

\* the names get_weather_info is called with: the controller passes the
\* name it validated
CallArgs == IF controller.pc = "calling" THEN {controller.arg} ELSE Cities

Init ==
    /\ AggIdle
    /\ fn = "" /\ input = NoneVal /\ output = Raise("pending")
    /\ earlier = NoneVal
    /\ controller = NoController
    /\ session = NoSession

Finish(o) ==
    /\ outcome' = o
    /\ pc' = "done"

\* lines 449-450: the call and its guard on the city name
Call ==
    /\ pc = "idle"
    /\ controller.pc \in {"off", "calling"}
    /\ \E c \in CallArgs, t \in Clocks :
        /\ Replays("city", c) /\ Replays("now", t)
        /\ city' = c
        /\ now' = t
        /\ IF Strip(c) = <<>>
           THEN Finish(Return(NoneVal))
           ELSE pc' = "current" /\ UNCHANGED outcome
    /\ UNCHANGED <<requests, data, parsed, uv_value, forecast_data, daily_data, unitVars, callerVars>>

\* lines 452-456, and parse_weather_data up to its UV request
FetchCurrent ==
    /\ pc = "current"
    /\ requests' = Send(requests, "weather", Strip(city))
    /\ \E response \in CurrentResponses(now) :
        LET fetched == fetch_weather_data(response).value
            step == CurrentStep(fetched)
        IN  /\ Replays("data", fetched)
            /\ data' = fetched
            /\ CASE step = "absent" ->
                        Finish(Return(NoneVal)) /\ UNCHANGED parsed
                 [] step = "raise" ->
                        Finish(Raise("AttributeError")) /\ UNCHANGED parsed
                 [] step = "none" ->
                        /\ parsed' = NoneVal
                        /\ pc' = "hourly"
                        /\ UNCHANGED outcome
                 [] step = "lookup" ->
                        /\ parsed' = Some(ParseFields(Val(fetched)).value)
                        /\ pc' = "uv"
                        /\ UNCHANGED outcome
                 [] step = "estimate" ->
                        /\ parsed' = Some(WithUv(ParseFields(Val(fetched)).value,
                                                 NoneVal, now))
                        /\ pc' = "hourly"
                        /\ UNCHANGED outcome
    /\ UNCHANGED <<city, now, uv_value, forecast_data, daily_data, unitVars, callerVars>>

\* lines 147-157: the UV lookup and the rest of parse_weather_data
FetchUv ==
    /\ pc = "uv"
    /\ requests' = Send(requests, "uv", <<Val(data).coord.lat, Val(data).coord.lon>>)
    /\ \E response \in UvResponses :
        /\ Replays("uv_value", fetch_uv_index_from_openmeteo(response).value)
        /\ uv_value' = fetch_uv_index_from_openmeteo(response).value
        /\ parsed' = Some(WithUv(Val(parsed), uv_value', now))
    /\ pc' = "hourly"
    /\ UNCHANGED <<city, now, data, forecast_data, daily_data, outcome, unitVars, callerVars>>

\* lines 460-463: the hourly series; parse_hourly_forecast only on a
\* truthy response
HourlyPart(fetched, clock) ==
    IF Truthy(fetched) THEN parse_hourly_forecast(Val(fetched), clock)
    ELSE Return(<<>>)

\* lines 470-473
DailyPart(fetched) ==
    IF Truthy(fetched) THEN parse_daily_forecast(Val(fetched)) ELSE Return(<<>>)

\* lines 459-468 and 474-477; the item assignment raises TypeError when
\* parsed is None
FetchHourly ==
    /\ pc = "hourly"
    /\ requests' = Send(requests, "forecast", Strip(city))
    /\ \E response \in ForecastResponses(now) :
        LET hourly == HourlyPart(fetch_hourly_forecast(response).value, now) IN
        /\ Replays("forecast_data", fetch_hourly_forecast(response).value)
        /\ forecast_data' = fetch_hourly_forecast(response).value
        /\ IF Raised(hourly) THEN Finish(hourly) /\ UNCHANGED parsed
           ELSE IF IsNone(parsed) THEN Finish(Raise("TypeError")) /\ UNCHANGED parsed
           ELSE LET p == Val(parsed) @@ [hourly_forecast |-> hourly.value] IN
                IF HasCoordinates(Val(data))
                THEN /\ parsed' = Some(p)
                     /\ pc' = "daily"
                     /\ UNCHANGED outcome
                ELSE /\ parsed' = Some(p @@ [daily_forecast |-> <<>>])
                     /\ Finish(Return(parsed'))
    /\ UNCHANGED <<city, now, data, uv_value, daily_data, unitVars, callerVars>>

\* lines 469-473 and 477
FetchDaily ==
    /\ pc = "daily"
    /\ requests' = Send(requests, "daily", <<Val(data).coord.lat, Val(data).coord.lon>>)
    /\ \E response \in DailyResponses :
        LET daily == DailyPart(fetch_daily_forecast(response).value) IN
        /\ Replays("daily_data", fetch_daily_forecast(response).value)
        /\ daily_data' = fetch_daily_forecast(response).value
        /\ IF Raised(daily) THEN Finish(daily) /\ UNCHANGED parsed
           ELSE /\ parsed' = Some(Val(parsed) @@ [daily_forecast |-> daily.value])
                /\ Finish(Return(parsed'))
    /\ UNCHANGED <<city, now, data, uv_value, forecast_data, unitVars, callerVars>>

Next == Call \/ FetchCurrent \/ FetchUv \/ FetchHourly \/ FetchDaily

Spec == Init /\ [][Next]_vars

----------------------------------------------------------------------------
(* Two invocations in a row, the second against the same upstream *)

\* a second call of get_weather_info: a new frame, whose locals are all
\* unbound; the module keeps no variable of its own between calls
Again ==
    /\ pc = "done"
    /\ IsNone(earlier)
    /\ controller.pc = "off"
    /\ earlier' = Some([city |-> city, now |-> now, data |-> data,
                        uv_value |-> uv_value, forecast_data |-> forecast_data,
                        daily_data |-> daily_data, requests |-> requests,
                        outcome |-> outcome])
    /\ pc' = "idle"
    /\ city' = ""
    /\ now' = 0
    /\ requests' = <<>>
    /\ data' = NoneVal
    /\ parsed' = NoneVal
    /\ uv_value' = NoneVal
    /\ forecast_data' = NoneVal
    /\ daily_data' = NoneVal
    /\ outcome' = Raise("pending")
    /\ UNCHANGED <<unitVars, controller, session>>

NextRepeat == Call \/ FetchCurrent \/ FetchUv \/ FetchHourly \/ FetchDaily \/ Again

SpecRepeat == Init /\ [][NextRepeat]_vars

----------------------------------------------------------------------------
(* WeatherController (src/ui/weather_controller.py): fetch_weather, split
   at its one blocking call, get_weather_info. A character outside ASCII
   is written by its name: "a-umlaut", "sharp-s". *)

Lowercase ==
    <<"a", "b", "c", "d", "e", "f", "g", "h", "i", "j", "k", "l",
      "m", "n", "o", "p", "q", "r", "s", "t", "u", "v", "w", "x",
      "y", "z", "a-umlaut", "o-umlaut", "u-umlaut">>
Uppercase ==
    <<"A", "B", "C", "D", "E", "F", "G", "H", "I", "J", "K", "L",
      "M", "N", "O", "P", "Q", "R", "S", "T", "U", "V", "W", "X",
      "Y", "Z", "A-umlaut", "O-umlaut", "U-umlaut">>
IndexIn(seq, c) == CHOOSE k \in 1..Len(seq) : seq[k] = c
IsLower(c) == \E k \in 1..Len(Lowercase) : Lowercase[k] = c
IsUpper(c) == \E k \in 1..Len(Uppercase) : Uppercase[k] = c
\* a cased character; the sharp s has no upper-case form of its own
IsCased(c) == IsLower(c) \/ IsUpper(c) \/ c = "sharp-s"

\* line 231
valid_chars ==
    {Lowercase[k] : k \in 1..26} \cup {Uppercase[k] : k \in 1..26}
    \cup {" ", "-", "'"}
    \cup {"a-umlaut", "o-umlaut", "u-umlaut", "A-umlaut", "O-umlaut", "U-umlaut",
          "sharp-s"}

\* variant: no upper limit on the length
validate_city_input_no_upper_limit(c) ==
    IF c = <<>> \/ Strip(c) = <<>>
    THEN [is_valid |-> FALSE, error_msg |-> "City name cannot be empty"]
    ELSE IF Len(Strip(c)) < 2
    THEN [is_valid |-> FALSE, error_msg |-> "City name is too short"]
    ELSE IF \E i \in 1..Len(c) : c[i] \notin valid_chars
    THEN [is_valid |-> FALSE, error_msg |-> "City name contains invalid characters"]
    ELSE [is_valid |-> TRUE, error_msg |-> ""]

\* lines 221-235: (is_valid, error_message)
validate_city_input(c) ==
    IF c = <<>> \/ Strip(c) = <<>>
    THEN [is_valid |-> FALSE, error_msg |-> "City name cannot be empty"]
    ELSE IF Len(Strip(c)) < 2
    THEN [is_valid |-> FALSE, error_msg |-> "City name is too short"]
    ELSE IF Len(Strip(c)) > 100
    THEN [is_valid |-> FALSE, error_msg |-> "City name is too long"]
    ELSE IF \E i \in 1..Len(c) : c[i] \notin valid_chars
    THEN [is_valid |-> FALSE, error_msg |-> "City name contains invalid characters"]
    ELSE [is_valid |-> TRUE, error_msg |-> ""]

\* one character of str.title(): upper case at the start of a word (the
\* sharp s becomes Ss), lower case inside it
TitleChar(c, starts) ==
    IF starts
    THEN IF IsLower(c) THEN <<Uppercase[IndexIn(Lowercase, c)]>>
         ELSE IF c = "sharp-s" THEN <<"S", "s">> ELSE <<c>>
    ELSE IF IsUpper(c) THEN <<Lowercase[IndexIn(Uppercase, c)]>> ELSE <<c>>

\* str.title() on a name: a word starts after every uncased character
RECURSIVE Title(_, _)
Title(s, k) ==
    IF k > Len(s) THEN <<>>
    ELSE TitleChar(s[k], k = 1 \/ ~IsCased(s[k - 1])) \o Title(s, k + 1)

\* str.title() on the descriptions of the model
TitleText(d) ==
    CASE d = "clear sky" -> "Clear Sky"
      [] d = "few clouds" -> "Few Clouds"
      [] d = "mist" -> "Mist"
      [] d = "light rain" -> "Light Rain"
      [] OTHER -> d

\* lines 133-155
process_weather_data(d, c) ==
    [city |-> Title(c, 1),
     country |-> "",
     main |-> d.weather_condition,
     description |-> TitleText(d.description),
     temp_celsius |-> d.temperature,
     feels_like_celsius |-> d.temperature,
     humidity |-> d.humidity,
     pressure |-> d.pressure,
     wind_speed |-> 0,
     raw |-> d]

\* _trigger_callback: the events the registered callbacks receive
OnError(title, message) ==
    [event |-> "on_error", title |-> title, detail |-> Some(message)]
OnLoading(is_loading) ==
    [event |-> "on_loading", title |-> "", detail |-> Some(is_loading)]
OnSuccess(processed_data) ==
    [event |-> "on_success", title |-> "", detail |-> Some(processed_data)]

\* variant: an absent result reported under the generic title
ReportedTitle_generic(o) ==
    IF Raised(o) \/ IsNone(o.value) THEN "Error" ELSE ""

\* lines 75-79 and 99-107: the title fetch_weather reports for the way
\* get_weather_info ended; none when it returned data
ReportedTitle(o) ==
    IF Raised(o) THEN "Error" ELSE IF IsNone(o.value) THEN "No Data" ELSE ""

\* the names typed into the controller: empty, too short, with a digit,
\* and a valid one
ControllerCities ==
    {<<>>, <<"X">>, <<"r", "i", "o", "2">>, <<"r", "i", "o", " ">>}

InitController ==
    /\ AggIdle
    /\ fn = "" /\ input = NoneVal /\ output = Raise("pending")
    /\ earlier = NoneVal
    /\ controller = [NoController EXCEPT !.pc = "ready"]
    /\ session = NoSession

\* lines 58-68: validation and the loading event
CtlFetchWeather ==
    /\ controller.pc = "ready"
    /\ \E c \in ControllerCities :
        LET v == validate_city_input(c) IN
        controller' =
            IF ~v.is_valid
            THEN [controller EXCEPT
                    !.pc = "returned", !.arg = c,
                    !.events = @ \o <<OnError("Invalid Input", v.error_msg)>>,
                    !.result = Some(FALSE)]
            ELSE [controller EXCEPT
                    !.pc = "calling", !.arg = c,
                    !.events = @ \o <<OnLoading(TRUE)>>]
    /\ UNCHANGED <<aggVars, unitVars, earlier, session>>

\* variant: the city stored, the data left as it was
StoreCurrent_city_only(ctl, c, weather_data) ==
    [ctl EXCEPT !.current_city = Some(c)]

\* lines 86-87
StoreCurrent(ctl, c, weather_data) ==
    [ctl EXCEPT !.current_weather_data = Some(weather_data),
                !.current_city = Some(c)]

\* lines 73-109, once get_weather_info has ended. on_success is code of
\* the view: whether it raises is the environment's choice.
CtlReturn ==
    /\ controller.pc = "calling"
    /\ pc = "done"
    /\ IF ReportedTitle(outcome) # ""
       THEN controller' =
                [controller EXCEPT
                    !.pc = "returned",
                    !.events = @ \o <<OnError(ReportedTitle(outcome), outcome.exc),
                                     OnLoading(FALSE)>>,
                    !.caught = IF Raised(outcome) THEN Some(outcome.exc) ELSE NoneVal,
                    !.result = Some(FALSE)]
       ELSE \E view_raises \in BOOLEAN :
            LET weather_data == Val(outcome.value)
                processed_data == process_weather_data(weather_data, controller.arg)
                stored == [StoreCurrent(controller, controller.arg, weather_data)
                             EXCEPT !.pc = "returned"]
            IN  controller' =
                    IF view_raises
                    THEN [stored EXCEPT
                            !.events = @ \o <<OnSuccess(processed_data),
                                             OnError(ReportedTitle(Raise("TclError")),
                                                     "TclError"),
                                             OnLoading(FALSE)>>,
                            !.caught = Some("TclError"),
                            !.result = Some(FALSE)]
                    ELSE [stored EXCEPT
                            !.events = @ \o <<OnSuccess(processed_data),
                                             OnLoading(FALSE)>>,
                            !.result = Some(TRUE)]
    /\ UNCHANGED <<aggVars, unitVars, earlier, session>>

NextController ==
    \/ CtlFetchWeather \/ Call \/ FetchCurrent \/ FetchUv \/ FetchHourly
    \/ FetchDaily \/ CtlReturn

SpecController == InitController /\ [][NextController]_vars

----------------------------------------------------------------------------
(* The window (WeatherApp) on top of the controller. get_weather_info is
   taken by its outcome; fetch_weather is split where the loading callback
   runs the event loop (root.update()) and where it blocks on the call. *)

\* the requests made in one session
MaxRequests == 2

\* main_content.py: num_cards of the two strips
HourlyCardCount == 24
DailyCardCount == 15

\* dict.get(key, default)
DictGet(rec, key, default) == IF key \in DOMAIN rec THEN rec[key] ELSE default

\* the format spec ".0f" on the rational r: nearest integer, a tie to even
RoundRat(r) ==
    LET q == r.n \div r.d
        rem == r.n - q * r.d
    IN  IF 2 * rem < r.d THEN q
        ELSE IF 2 * rem > r.d THEN q + 1
        ELSE IF q % 2 = 0 THEN q ELSE q + 1

\* weather_app.py lines 207-227: the hourly cards from the record's
\* 'hourly_forecast'; a card is its time label and its temperature label
\* (None for "--"), the icons are left out
SeriesHourlyCards(hourly_forecast) ==
    [i \in 1..HourlyCardCount |->
        IF i <= Len(hourly_forecast)
        THEN [time |-> Some(hourly_forecast[i].time),
              temp |-> Some(RoundRat(hourly_forecast[i].temperature))]
        ELSE [time |-> NoneVal, temp |-> NoneVal]]

\* weather_app.py lines 228-252: the cards when the record has no hourly
\* series; temp_variation = ((i % 8) - 3.5) * 1.5, here in quarters
SyntheticHourlyCards(base_temp, current_hour) ==
    [i \in 1..HourlyCardCount |->
        [time |-> Some(<<(current_hour + (i - 1)) % 24, 0>>),
         temp |-> Some(RoundRat(Rat(4 * base_temp + 6 * ((i - 1) % 8) - 21, 4)))]]

\* weather_app.py lines 256-283 (temperatures in hundredths of a degree)
SeriesDailyCards(daily_forecast) ==
    [i \in 1..DailyCardCount |->
        IF i <= Len(daily_forecast)
        THEN [day |-> Some(daily_forecast[i].day),
              temp |-> IF IsNone(daily_forecast[i].temperature_max)
                          \/ IsNone(daily_forecast[i].temperature_min)
                       THEN NoneVal
                       ELSE Some(<<RoundRat(Rat(Val(daily_forecast[i].temperature_max), 100)),
                                   RoundRat(Rat(Val(daily_forecast[i].temperature_min), 100))>>)]
        ELSE [day |-> NoneVal, temp |-> NoneVal]]

\* weather_app.py lines 284-293: "---" and "--/--" on every card
PlaceholderDailyCards ==
    [i \in 1..DailyCardCount |-> [day |-> NoneVal, temp |-> NoneVal]]

\* weather_app.py lines 195-293, the unit being Celsius; the sidebar's
\* city temperatures (lines 295-300) are left out
update_temperature_displays(v, record, clock) ==
    LET hourly_forecast == DictGet(record, "hourly_forecast", <<>>)
        daily_forecast == DictGet(record, "daily_forecast", <<>>)
    IN  [v EXCEPT
           !.temp_label = Some(record.temp_celsius),
           !.hourly = IF hourly_forecast # <<>>
                      THEN SeriesHourlyCards(hourly_forecast)
                      ELSE SyntheticHourlyCards(record.temp_celsius,
                                                HourOfDay(clock, 0)),
           !.daily = IF daily_forecast # <<>>
                     THEN SeriesDailyCards(daily_forecast)
                     ELSE PlaceholderDailyCards]

\* weather_app.py lines 120-136; `rendered` remembers the record shown
on_weather_success(v, record, clock) ==
    update_temperature_displays(
        [v EXCEPT !.showing = "weather",
                  !.rendered = Some(record),
                  !.city_label = Some(record.city),
                  !.description_label = Some(record.description),
                  !.details = [sunrise |-> DictGet(record, "sunrise", NoneVal),
                               sunset |-> DictGet(record, "sunset", NoneVal),
                               visibility |-> DictGet(record, "visibility", NoneVal),
                               uv_index |-> DictGet(record, "uv_index", NA)]],
        record, clock)

\* weather_app.py lines 138-139: a message box with the title
on_weather_error(v, title) == [v EXCEPT !.dialogs = Append(@, title)]

\* weather_app.py lines 147-167: "Loading" in every label
show_loading_state(v) ==
    [v EXCEPT !.showing = "loading",
              !.city_label = NoneVal,
              !.temp_label = NoneVal,
              !.description_label = NoneVal,
              !.details = [sunrise |-> NoneVal, sunset |-> NoneVal,
                           visibility |-> NoneVal, uv_index |-> NA],
              !.hourly = [i \in 1..HourlyCardCount |-> [time |-> NoneVal, temp |-> NoneVal]],
              !.daily = PlaceholderDailyCards]

\* weather_app.py lines 141-145, up to the call of root.update()
on_loading(v, is_loading) ==
    IF is_loading THEN show_loading_state([v EXCEPT !.cursor = "wait"])
    ELSE [v EXCEPT !.cursor = ""]

\* main_content.py: the window as built, before any weather is shown
BlankView(clock) ==
    [showing |-> "blank", rendered |-> NoneVal,
     city_label |-> NoneVal, temp_label |-> NoneVal, description_label |-> NoneVal,
     details |-> [sunrise |-> NoneVal, sunset |-> NoneVal,
                  visibility |-> NoneVal, uv_index |-> NA],
     hourly |-> [i \in 1..HourlyCardCount |->
                    [time |-> Some(<<(HourOfDay(clock, 0) + (i - 1)) % 24, 0>>),
                     temp |-> NoneVal]],
     daily |-> PlaceholderDailyCards,
     cursor |-> "", dialogs |-> <<>>]

\* a name of n letters
LongName(n) == [i \in 1..n |-> "a"]

\* the names asked for: empty, blank, one letter (also with blanks around
\* it), 101 letters, with a digit, with a tab before it; and valid ones:
\* 100 letters between blanks, a plain one and one with an umlaut
SessionCities ==
    {<<>>, <<" ">>, <<"X">>, <<" ", "X", " ">>, LongName(101),
     <<"r", "i", "o", "2">>, <<"\t", "r", "i", "o">>,
     <<" ">> \o LongName(100) \o <<" ">>,
     <<"r", "i", "o">>, <<"k", "o-umlaut", "l", "n">>}

\* get_weather_info's result for a reading and with or without the two
\* series, put together as the aggregator does
SessionSnapshot(reading, series, clock) ==
    LET body == [shape |-> "object",
                 weather |-> [main |-> "Clear", description |-> "clear sky"],
                 main |-> [temp |-> Some(reading), pressure |-> 1013, humidity |-> 65],
                 sys |-> [present |-> TRUE, sunrise |-> Some(clock - 3),
                          sunset |-> Some(clock + 5)],
                 timezone |-> 1, visibility |-> Some(10000),
                 coord |-> [shape |-> "absent", lat |-> NoneVal, lon |-> NoneVal]]
        fields == Val(parse_weather_data(body, NoneVal, clock).value)
    IN  fields
        @@ [hourly_forecast |->
                IF series
                THEN parse_hourly_forecast(
                        ForecastData(MaxItems, 0 - 1, 3, 3, 1, 1, clock), clock).value
                ELSE <<>>,
            daily_forecast |->
                IF series
                THEN parse_daily_forecast(DailyPayload("ok", 5, 5, 5, 5, "iso")).value
                ELSE <<>>]

\* the ways a call of get_weather_info ends
WeatherOutcomes ==
    {Return(NoneVal), Raise("TypeError"),
     Return(Some(SessionSnapshot(29315, TRUE, SessionClock))),
     Return(Some(SessionSnapshot(28815, FALSE, SessionClock)))}

InitSession ==
    /\ AggIdle
    /\ fn = "" /\ input = NoneVal /\ output = Raise("pending")
    /\ earlier = NoneVal
    /\ controller = [NoController EXCEPT !.pc = "window"]
    /\ session = [NoSession EXCEPT !.view = BlankView(SessionClock)]

\* the innermost fetch_weather activation
Top == session.frames[Len(session.frames)]
TopIs(where) == IF session.frames = <<>> THEN FALSE ELSE Top.pc = where

\* the event loop runs in mainloop and inside root.update()
EventLoopRuns == IF session.frames = <<>> THEN TRUE ELSE Top.pc = "updating"

Current(ctl) == <<ctl.current_city, ctl.current_weather_data>>

\* the record of one request: the events of its own call, how
\* get_weather_info ended for it and in which order (stamp), what the
\* call returned, and the stored city and data before and after it
NewEntry(kind, c) ==
    [kind |-> kind, city |-> c, events |-> <<>>, outcome |-> NoneVal,
     stamp |-> 0, result |-> NoneVal, depth |-> Len(session.frames),
     before |-> Current(controller), after |-> NoneVal]

Stamps == Cardinality({k \in 1..Len(session.log) : session.log[k].stamp > 0})

\* weather_controller.py lines 58-68: validation, then the loading event,
\* whose callback shows the loading state and enters root.update()
BeginFetch(kind, c) ==
    LET v == validate_city_input(c)
        e == NewEntry(kind, c)
    IN  IF ~v.is_valid
        THEN /\ controller' =
                    [controller EXCEPT
                        !.events = @ \o <<OnError("Invalid Input", v.error_msg)>>,
                        !.result = Some(FALSE)]
             /\ session' =
                    [session EXCEPT
                        !.log = Append(@, [e EXCEPT
                                    !.events = <<OnError("Invalid Input", v.error_msg)>>,
                                    !.result = Some(FALSE),
                                    !.after = Some(Current(controller'))]),
                        !.view = on_weather_error(@, "Invalid Input")]
        ELSE /\ controller' = [controller EXCEPT !.events = @ \o <<OnLoading(TRUE)>>]
             /\ session' =
                    [session EXCEPT
                        !.log = Append(@, [e EXCEPT !.events = <<OnLoading(TRUE)>>]),
                        !.frames = Append(@, [city |-> c, pc |-> "updating",
                                              entry |-> Len(session.log) + 1]),
                        !.view = on_loading(@, TRUE)]

\* weather_app.py line 83: a click or a search dispatched by the event loop
RequestFetch ==
    /\ controller.pc = "window"
    /\ Len(session.log) < MaxRequests
    /\ EventLoopRuns
    /\ \E c \in SessionCities : BeginFetch("fetch", c)
    /\ UNCHANGED <<aggVars, unitVars, earlier>>

\* weather_controller.py lines 239-252
RequestRefresh ==
    /\ controller.pc = "window"
    /\ Len(session.log) < MaxRequests
    /\ EventLoopRuns
    /\ IF ~IsNone(controller.current_city) /\ controller.current_city # Some(<<>>)
       THEN BeginFetch("refresh", Val(controller.current_city))
       ELSE LET ev == OnError("No City Selected", "Please search for a city first")
            IN  /\ controller' = [controller EXCEPT !.events = @ \o <<ev>>,
                                                    !.result = Some(FALSE)]
                /\ session' =
                       [session EXCEPT
                           !.log = Append(@, [NewEntry("refresh", <<>>) EXCEPT
                                       !.events = <<ev>>,
                                       !.result = Some(FALSE),
                                       !.after = Some(Current(controller'))]),
                           !.view = on_weather_error(@, "No City Selected")]
    /\ UNCHANGED <<aggVars, unitVars, earlier>>

\* weather_app.py line 145: root.update() returns to on_loading, which
\* returns to fetch_weather at line 70
UpdateReturns ==
    /\ controller.pc = "window"
    /\ TopIs("updating")
    /\ session' = [session EXCEPT !.frames[Len(session.frames)].pc = "fetching"]
    /\ UNCHANGED <<aggVars, unitVars, earlier, controller>>

\* weather_controller.py lines 73-109: get_weather_info ends and the
\* activation runs to its return
FetchReturns ==
    /\ controller.pc = "window"
    /\ TopIs("fetching")
    /\ \E o \in WeatherOutcomes :
        LET k == Top.entry
            title == ReportedTitle(o)
            failed == <<OnError(title, o.exc), OnLoading(FALSE)>>
            weather_data == Val(o.value)
            processed_data == process_weather_data(weather_data, Top.city)
            shown == <<OnSuccess(processed_data), OnLoading(FALSE)>>
        IN  IF title # ""
            THEN /\ controller' =
                        [controller EXCEPT
                            !.events = @ \o failed,
                            !.caught = IF Raised(o) THEN Some(o.exc) ELSE NoneVal,
                            !.result = Some(FALSE)]
                 /\ session' =
                        [session EXCEPT
                            !.frames = SubSeq(@, 1, Len(@) - 1),
                            !.log[k] = [@ EXCEPT !.events = @ \o failed,
                                                 !.outcome = Some(o),
                                                 !.stamp = Stamps + 1,
                                                 !.result = Some(FALSE),
                                                 !.after = Some(Current(controller'))],
                            !.view = on_loading(on_weather_error(@, title), FALSE)]
            ELSE /\ controller' =
                        [StoreCurrent(controller, Top.city, weather_data) EXCEPT
                            !.events = @ \o shown,
                            !.result = Some(TRUE)]
                 /\ session' =
                        [session EXCEPT
                            !.frames = SubSeq(@, 1, Len(@) - 1),
                            !.log[k] = [@ EXCEPT !.events = @ \o shown,
                                                 !.outcome = Some(o),
                                                 !.stamp = Stamps + 1,
                                                 !.result = Some(TRUE),
                                                 !.after = Some(Current(controller'))],
                            !.view = on_loading(
                                        on_weather_success(@, processed_data,
                                                           SessionClock),
                                        FALSE)]
    /\ UNCHANGED <<aggVars, unitVars, earlier>>

NextSession == RequestFetch \/ RequestRefresh \/ UpdateReturns \/ FetchReturns

SpecSession == InitSession /\ [][NextSession]_vars

----------------------------------------------------------------------------
(* Properties of get_weather_info, stated for Spec *)

Done == pc = "done"
\* the invocation returned a snapshot (not None)
HasSnapshot == Done /\ Returned(outcome) /\ ~IsNone(outcome.value)
Snapshot == Val(outcome.value)
\* the current-conditions fetch succeeded and its payload parsed
AnchorParsed == ~IsNone(data) /\ UvStep(Val(data)) \in {"lookup", "estimate"}
Endpoints == {requests[i].endpoint : i \in 1..Len(requests)}

\* C1: once the current-conditions fetch has succeeded and parsed, the
\* invocation ends by returning a snapshot, whatever the hourly and daily
\* fetches and parsers do.
C1_EnrichmentsNeverAbort == (Done /\ AnchorParsed) => HasSnapshot

\* C2: when the current-conditions fetch yields no data the invocation is
\* over, it returned None, and no forecast, UV or daily request was issued.
C2_AbsentAnchor ==
    (pc \notin {"idle", "current"} /\ IsNone(data)) =>
        /\ Done
        /\ outcome = Return(NoneVal)
        /\ Endpoints \subseteq {"weather"}

C2_Witness == Done /\ IsNone(data) /\ Endpoints = {"weather"}

\* C3: whatever the upstream responses, the invocation ends by returning
\* (a snapshot or None), never by raising; a current-conditions payload
\* that does not parse gives None.
C3_NeverRaises ==
    Done => /\ Returned(outcome)
            /\ (~IsNone(data) /\ UvStep(Val(data)) = "none" => outcome = Return(NoneVal))

ConditionSet ==
    {"clear", "clouds", "rain", "drizzle", "snow", "fog", "thunderstorm", "unknown"}
Lower(label) ==
    CASE label = "Clear" -> "clear" [] label = "Clouds" -> "clouds"
      [] label = "Rain" -> "rain" [] label = "Mist" -> "mist"
      [] label = "Unknown" -> "unknown" [] OTHER -> label
SeqConditions(series) == {series[i].condition : i \in 1..Len(series)}

\* C6 (as claimed): every condition of a snapshot lies in the closed set.
C6_ClosedConditionSet ==
    HasSnapshot =>
        /\ Lower(Snapshot.weather_condition) \in ConditionSet
        /\ \A c \in SeqConditions(Snapshot.hourly_forecast) : Lower(c) \in ConditionSet
        /\ \A c \in SeqConditions(Snapshot.daily_forecast) : c \in ConditionSet

\* C6 (amended): every daily condition lies in the closed set; the current
\* condition and the hourly conditions are the provider's labels, unmapped.
C6_DailyMappedRestVerbatim ==
    HasSnapshot =>
        /\ \A c \in SeqConditions(Snapshot.daily_forecast) : c \in ConditionSet
        /\ Snapshot.weather_condition = Val(data).weather.main
        /\ \A c \in SeqConditions(Snapshot.hourly_forecast) :
              \E k \in 1..Len(Val(forecast_data).list) :
                  c = Val(forecast_data).list[k].main

C6_Witness ==
    /\ HasSnapshot
    /\ Snapshot.weather_condition = "Mist"
    /\ "Mist" \in SeqConditions(Snapshot.hourly_forecast)
    /\ "fog" \in SeqConditions(Snapshot.daily_forecast)

\* C10: the UV field is the looked-up value with its band when the
\* coordinates are present and the lookup returned a value, and the
\* heuristic estimate in every other case.
C10_UvTierOne ==
    (pc \in {"hourly", "daily", "done"} /\ ~IsNone(parsed)) =>
        LET p == Val(parsed) IN
        IF HasCoordinates(Val(data)) /\ ~IsNone(uv_value)
        THEN /\ p.uv_index.num = <<Format1f(Val(uv_value))>>
             /\ p.uv_index.text \in {"Low", "Moderate", "High", "Very High", "Extreme"}
             /\ p.uv_index = uv_index_to_display(uv_value)
        ELSE p.uv_index = calculate_uv_index_estimate(p.sunrise, p.sunset,
                                                      p.weather_condition, now)

C10_Witness ==
    /\ HasSnapshot
    /\ uv_value = Some(701)
    /\ Snapshot.uv_index = [num |-> <<70>>, text |-> "Very High"]
    /\ calculate_uv_index_estimate(Snapshot.sunrise, Snapshot.sunset,
                                   Snapshot.weather_condition, now) = UvText("High (7-9)")

\* a sunrise or sunset time is available when the payload carries it and
\* it is not zero
Available(t) == ~IsNone(t) /\ t # Some(0)
SunTimesAvailable ==
    /\ Val(data).sys.present
    /\ Available(Val(data).sys.sunrise)
    /\ Available(Val(data).sys.sunset)

\* C11: every snapshot has a UV field, and the field is "N/A" only when
\* sunrise or sunset is unavailable: with both available it is never
\* "N/A", whether the lookup was made, failed or was not made at all.
C11_UvNaOnlyWithoutSun ==
    HasSnapshot =>
        /\ "uv_index" \in DOMAIN Snapshot
        /\ (SunTimesAvailable => Snapshot.uv_index.text # "N/A")
        /\ (Snapshot.uv_index.text = "N/A" =>
               /\ Snapshot.uv_index = NA
               /\ ~SunTimesAvailable
               /\ ~(HasCoordinates(Val(data)) /\ ~IsNone(uv_value)))

C11_Witness ==
    /\ HasSnapshot
    /\ SunTimesAvailable
    /\ HasCoordinates(Val(data))
    /\ "uv" \in Endpoints
    /\ IsNone(uv_value)
    /\ Snapshot.uv_index = UvText("None (Night)")

\* the current-conditions payload carries a latitude and a longitude
LatLon(d) == <<d.coord.lat, d.coord.lon>>
BothCoordinates(d) ==
    d.coord.shape = "object" /\ ~IsNone(LatLon(d)[1]) /\ ~IsNone(LatLon(d)[2])

\* C12: a UV or daily request is issued only after the current-conditions
\* request, only once that fetch has returned data, and only with the
\* latitude and longitude of its payload; without both coordinates no UV
\* (or daily) request is issued and the UV field is the heuristic estimate.
C12_CoordinatesGateLookups ==
    /\ \A i \in 1..Len(requests) :
          requests[i].endpoint \in {"uv", "daily"} =>
              /\ \E j \in 1..(i - 1) : requests[j].endpoint = "weather"
              /\ ~IsNone(data)
              /\ BothCoordinates(Val(data))
              /\ requests[i].arg = LatLon(Val(data))
    /\ (pc \in {"hourly", "daily", "done"} /\ ~IsNone(parsed)
          /\ ~BothCoordinates(Val(data))) =>
              /\ Endpoints \cap {"uv", "daily"} = {}
              /\ IsNone(uv_value)
              /\ Val(parsed).uv_index
                    = calculate_uv_index_estimate(Val(parsed).sunrise, Val(parsed).sunset,
                                                  Val(parsed).weather_condition, now)

C12_Witness ==
    /\ HasSnapshot
    /\ Val(data).coord.shape = "object"
    /\ IsNone(Val(data).coord.lon)
    /\ Endpoints = {"weather", "forecast"}
    /\ Snapshot.uv_index = UvText("High (7-9)")

AllEndpoints == {"weather", "uv", "forecast", "daily"}
Count(e) == Cardinality({i \in 1..Len(requests) : requests[i].endpoint = e})
\* the endpoint of the client called at each position of the invocation
EndpointAt(p) ==
    CASE p = "current" -> "weather" [] p = "uv" -> "uv"
      [] p = "hourly" -> "forecast" [] OTHER -> "daily"

\* a step that calls a client adds one request, for that client's endpoint
OneRequestPerCall ==
    pc \in {"current", "uv", "hourly", "daily"} =>
        /\ requests' = Append(requests, requests'[Len(requests')])
        /\ requests'[Len(requests')].endpoint = EndpointAt(pc)

\* C14: every client call issues exactly one request, whether it succeeds
\* or fails, and an invocation never issues a second request to an
\* endpoint: no failure is retried.
C14_SingleAttempt ==
    /\ [](\A e \in AllEndpoints : Count(e) <= 1)
    /\ [][OneRequestPerCall]_vars

C14_Witness ==
    /\ Done
    /\ \A e \in AllEndpoints : Count(e) = 1
    /\ IsNone(uv_value)
    /\ IsNone(forecast_data)
    /\ IsNone(daily_data)

\* a name without its leading and trailing whitespace
Inked(s) == {i \in 1..Len(s) : s[i] \notin {" ", "\t", "\n"}}
Trimmed(s) ==
    IF Inked(s) = {} THEN <<>>
    ELSE SubSeq(s, CHOOSE i \in Inked(s) : \A k \in Inked(s) : i <= k,
                   CHOOSE j \in Inked(s) : \A k \in Inked(s) : k <= j)

\* C17: called with an empty or all-whitespace name the invocation returns
\* None and issues no request; with any other name the current-conditions
\* and forecast requests carry the name without its leading and trailing
\* whitespace.
C17_BlankCityNoRequest ==
    pc # "idle" =>
        IF Trimmed(city) = <<>>
        THEN Done /\ outcome = Return(NoneVal) /\ requests = <<>>
        ELSE /\ pc # "current" => requests[1] = Request("weather", Trimmed(city))
             /\ \A i \in 1..Len(requests) :
                   requests[i].endpoint \in {"weather", "forecast"}
                       => requests[i].arg = Trimmed(city)

C17_Witness ==
    /\ HasSnapshot
    /\ city = <<" ", "S", "t", " ", "I", "v", "e", "s", "\t">>
    /\ requests[1] = Request("weather", <<"S", "t", " ", "I", "v", "e", "s">>)
    /\ \E i \in 2..Len(requests) :
          requests[i] = Request("forecast", <<"S", "t", " ", "I", "v", "e", "s">>)

----------------------------------------------------------------------------
(* Properties of two invocations in a row, stated for SpecRepeat *)

Repeated == ~IsNone(earlier)

----------------------------------------------------------------------------
(* Properties of WeatherController.fetch_weather, stated for SpecController *)

CtlReturned == controller.pc = "returned"
ErrorTitles ==
    {controller.events[k].title :
        k \in {j \in 1..Len(controller.events) : controller.events[j].event = "on_error"}}

\* C15: fetch_weather reports an absent result of get_weather_info under
\* "No Data" and an exception raised by the fetch or by the processing of
\* its result under "Error", never one under the other's title: a failed
\* current-conditions fetch is reported as "No Data" only, an exception as
\* "Error" only.
C15_NoDataVersusError ==
    (CtlReturned /\ Done) =>
        /\ (outcome = Return(NoneVal)) = (ErrorTitles = {"No Data"})
        /\ (Raised(outcome) \/ ~IsNone(controller.caught)) = (ErrorTitles = {"Error"})
        /\ IsNone(data) => ErrorTitles = {"No Data"} /\ IsNone(controller.caught)
        /\ ErrorTitles \subseteq {"No Data", "Error"}
        /\ controller.result = Some(ErrorTitles = {})

C15_Witness ==
    /\ CtlReturned
    /\ Endpoints = {"weather"}
    /\ IsNone(data)
    /\ outcome = Return(NoneVal)
    /\ ErrorTitles = {"No Data"}
    /\ controller.result = Some(FALSE)

----------------------------------------------------------------------------
(* Properties of the pure functions, stated for SpecUnit *)

Applied(f) == fn = f /\ output # Raise("pending")

WellFormedForecast(f) ==
    /\ f.shape = "ok"
    /\ f.list # <<>>
    /\ \A k \in 1..Len(f.list) : f.list[k].main \notin {NoWeather, NotText}
    /\ \A k \in 1..(Len(f.list) - 1) : f.list[k].dt < f.list[k + 1].dt

\* C5: on a non-empty ascending sequence of well-formed samples
\* parse_hourly_forecast returns 24 points, the i-th with hour
\* (current_hour + i) mod 24.
C5_TwentyFourHours ==
    (Applied("parse_hourly_forecast") /\ WellFormedForecast(input.forecast_data)) =>
        /\ Returned(output)
        /\ Len(output.value) = 24
        /\ \A i \in 1..Len(output.value) :
              output.value[i].hour
                  = (HourOfDay(input.clock, input.forecast_data.timezone) + (i - 1)) % 24

\* C7: parse_daily_forecast returns min(15, len(dates)) entries, the i-th
\* labelled from the i-th date.
C7_DailyCount ==
    (Applied("parse_daily_forecast") /\ input.shape = "ok") =>
        /\ Returned(output)
        /\ Len(output.value) = Min(15, Len(input.daily.time))
        /\ \A i \in 1..Len(output.value) :
              output.value[i].day = day_label(input.daily.time[i])

C7_Witness ==
    /\ Applied("parse_daily_forecast")
    /\ input.shape = "ok"
    /\ Len(input.daily.time) = 30
    /\ Len(output.value) = 15
    /\ output.value[15].day = <<"Sun", " ", "1", "5">>

\* the table of the claim
WmoTable(c) ==
    CASE c = 0 -> "clear"
      [] c \in {1, 2, 3} -> "clouds"
      [] c \in {45, 48} -> "fog"
      [] c \in {51, 53, 55, 56, 57, 61, 63, 65, 66, 67, 80, 81, 82} -> "rain"
      [] c \in {52, 54} -> "drizzle"
      [] c \in {71, 73, 75, 77, 85, 86} -> "snow"
      [] c \in {95, 96, 99} -> "thunderstorm"
      [] OTHER -> "clouds"

\* C8: wmo_to_condition returns, for every integer code, the condition of
\* the table, and clouds for every code outside it.
C8_WmoTotal ==
    (Applied("wmo_to_condition") /\ ~IsNone(input)) =>
        /\ Returned(output)
        /\ output.value.condition = WmoTable(Val(input))

C8_Witness ==
    /\ Applied("wmo_to_condition")
    /\ input = Some(52)
    /\ output.value.condition = "drizzle"

\* C9: the band of uv_index_to_display follows the inclusive upper
\* thresholds 2, 5, 7 and 10.
C9_UvBands ==
    (Applied("uv_index_to_display") /\ ~IsNone(input)) =>
        LET uv == Val(input)
            cat == output.value.text
        IN  /\ (uv <= 200) = (cat = "Low")
            /\ (200 < uv /\ uv <= 500) = (cat = "Moderate")
            /\ (500 < uv /\ uv <= 700) = (cat = "High")
            /\ (700 < uv /\ uv <= 1000) = (cat = "Very High")
            /\ (uv > 1000) = (cat = "Extreme")
            /\ (uv = 200 => cat = "Low")
            /\ (uv \in {201, 500} => cat = "Moderate")
            /\ (uv = 701 => cat = "Very High")
            /\ (uv = 1001 => cat = "Extreme")

C9_Witness ==
    /\ Applied("uv_index_to_display")
    /\ input = Some(1001)
    /\ output.value = [num |-> <<100>>, text |-> "Extreme"]

ClientFns ==
    {"fetch_weather_data", "fetch_uv_index_from_openmeteo",
     "fetch_hourly_forecast", "fetch_daily_forecast"}

\* C13: each of the four clients returns, never raises, and returns None
\* for a timeout, a connection failure, an HTTP error status and a body
\* that is not JSON.
C13_ClientsReturnAbsent ==
    (fn \in ClientFns /\ output # Raise("pending")) =>
        /\ Returned(output)
        /\ (input.status \in {"timeout", "connection", "http_error", "bad_json"}
              => output = Return(NoneVal))

C13_Witness ==
    /\ Applied("fetch_daily_forecast")
    /\ input.status = "bad_json"
    /\ output = Return(NoneVal)

\* the samples parse_hourly_forecast reads, and the hour of its i-th slot
Samples(f) == SubSeq(f.list, 1, Min(8, Len(f.list)))
TargetHour(i) == input.clock + (i - 1)
SampleTemp(smp) == Rat(smp.temp - 27315, 1)
FullSeries == Returned(output) /\ Len(output.value) = 24

\* C18: for a target hour before the first sample the point carries the
\* first sample's temperature and condition, and 24 points are returned.
C18_BeforeFirstSample ==
    (Applied("parse_hourly_forecast") /\ WellFormedForecast(input.forecast_data)
        /\ TargetHour(1) < Samples(input.forecast_data)[1].dt) =>
        /\ FullSeries
        /\ \A i \in 1..Len(output.value) :
              TargetHour(i) < Samples(input.forecast_data)[1].dt =>
                  /\ output.value[i].temperature
                        = SampleTemp(Samples(input.forecast_data)[1])
                  /\ output.value[i].condition = Samples(input.forecast_data)[1].main

\* C19: for a target hour at or after the last sample the point carries
\* the last sample's temperature and condition, for any number of samples
\* and also when the first target hour is already past the last sample.
C19_AfterLastSample ==
    (Applied("parse_hourly_forecast") /\ WellFormedForecast(input.forecast_data)
        /\ Samples(input.forecast_data)[1].dt <= TargetHour(1)) =>
        LET smp == Samples(input.forecast_data) IN
        /\ FullSeries
        /\ \A i \in 1..Len(output.value) :
              smp[Len(smp)].dt <= TargetHour(i) =>
                  /\ output.value[i].temperature = SampleTemp(smp[Len(smp)])
                  /\ output.value[i].condition = smp[Len(smp)].main

\* the index of the latest sample not after hour t, when t is bracketed
Bracketed(smp, t) == \E k \in 1..(Len(smp) - 1) : smp[k].dt <= t /\ t < smp[k + 1].dt
PrevIndex(smp, t) == CHOOSE k \in 1..(Len(smp) - 1) : smp[k].dt <= t /\ t < smp[k + 1].dt
\* twice the distance to prev, less the distance between prev and next:
\* negative nearer prev, zero at the midpoint, positive nearer next
Lean(smp, t) ==
    2 * (t - smp[PrevIndex(smp, t)].dt)
        - (smp[PrevIndex(smp, t) + 1].dt - smp[PrevIndex(smp, t)].dt)

\* C20 (as claimed): a bracketed point has the condition of the nearer
\* sample, and prev's condition at the exact midpoint.
C20_MidpointTakesPrev ==
    (Applied("parse_hourly_forecast") /\ WellFormedForecast(input.forecast_data)
        /\ FullSeries) =>
        LET smp == Samples(input.forecast_data) IN
        \A i \in 1..24 : Bracketed(smp, TargetHour(i)) =>
            output.value[i].condition
                = IF Lean(smp, TargetHour(i)) <= 0
                  THEN smp[PrevIndex(smp, TargetHour(i))].main
                  ELSE smp[PrevIndex(smp, TargetHour(i)) + 1].main

\* C20 (amended): a bracketed point has the condition of the nearer
\* sample, and next's condition at the exact midpoint.
C20_MidpointTakesNext ==
    (Applied("parse_hourly_forecast") /\ WellFormedForecast(input.forecast_data)
        /\ FullSeries) =>
        LET smp == Samples(input.forecast_data) IN
        \A i \in 1..24 : Bracketed(smp, TargetHour(i)) =>
            output.value[i].condition
                = IF Lean(smp, TargetHour(i)) < 0
                  THEN smp[PrevIndex(smp, TargetHour(i))].main
                  ELSE smp[PrevIndex(smp, TargetHour(i)) + 1].main

C20_Witness ==
    /\ Applied("parse_hourly_forecast")
    /\ WellFormedForecast(input.forecast_data)
    /\ FullSeries
    /\ \E i \in 1..24 :
          LET smp == Samples(input.forecast_data) IN
          /\ Bracketed(smp, TargetHour(i))
          /\ Lean(smp, TargetHour(i)) = 0
          /\ smp[PrevIndex(smp, TargetHour(i))].main = "Clear"
          /\ output.value[i].condition = "Clouds"

\* the bracketing samples' temperatures in hundredths of a degree Celsius
PrevTemp(smp, t) == smp[PrevIndex(smp, t)].temp - 27315
NextTemp(smp, t) == smp[PrevIndex(smp, t) + 1].temp - 27315
Span(smp, t) == smp[PrevIndex(smp, t) + 1].dt - smp[PrevIndex(smp, t)].dt
Max(a, b) == IF a >= b THEN a ELSE b

\* C21: for a target hour t with t0 <= t < t1, t0 the latest sample not
\* after t and t1 the sample following it, the point's temperature is
\* T0 + (T1 - T0) * (t - t0) / (t1 - t0), and it lies between
\* min(T0, T1) and max(T0, T1) inclusive.
C21_LinearInterpolation ==
    (Applied("parse_hourly_forecast") /\ WellFormedForecast(input.forecast_data)
        /\ FullSeries) =>
        LET smp == Samples(input.forecast_data) IN
        \A i \in 1..24 : Bracketed(smp, TargetHour(i)) =>
            LET t == TargetHour(i)
                T0 == PrevTemp(smp, t)
                T1 == NextTemp(smp, t)
                temp == output.value[i].temperature
            IN  /\ temp.d > 0
                /\ temp.n * Span(smp, t)
                      = temp.d * (T0 * Span(smp, t)
                                  + (T1 - T0) * (t - smp[PrevIndex(smp, t)].dt))
                /\ Min(T0, T1) * temp.d <= temp.n
                /\ temp.n <= Max(T0, T1) * temp.d

C21_Witness ==
    /\ Applied("parse_hourly_forecast")
    /\ WellFormedForecast(input.forecast_data)
    /\ FullSeries
    /\ \E i \in 1..24 :
          LET smp == Samples(input.forecast_data)
              t == TargetHour(i)
          IN  /\ Bracketed(smp, t)
              /\ Span(smp, t) = 3
              /\ t - smp[PrevIndex(smp, t)].dt = 2
              /\ PrevTemp(smp, t) # NextTemp(smp, t)
              /\ 3 * output.value[i].temperature.n
                    = output.value[i].temperature.d
                        * (PrevTemp(smp, t) + 2 * NextTemp(smp, t))

\* the value at index i of a column, None beyond its end
ColumnAt(column, i) == IF i <= Len(column) THEN column[i] ELSE NoneVal

\* C22: entry i of parse_daily_forecast takes each field from index i of
\* its array, a field whose array ends before i is as a null one (no
\* temperature; the condition a null code gives), and arrays of unequal
\* length never raise, drop an entry or empty the series.
C22_PositionalZip ==
    (Applied("parse_daily_forecast") /\ input.shape = "ok") =>
        /\ Returned(output)
        /\ Len(output.value) = Min(15, Len(input.daily.time))
        /\ \A i \in 1..Len(output.value) :
              /\ output.value[i].temperature_max = ColumnAt(input.daily.tmax, i)
              /\ output.value[i].temperature_min = ColumnAt(input.daily.tmin, i)
              /\ output.value[i].condition
                    = IF IsNone(ColumnAt(input.daily.code, i)) THEN "clear"
                      ELSE WmoTable(Val(input.daily.code[i]))

C22_Witness ==
    /\ Applied("parse_daily_forecast")
    /\ input.shape = "ok"
    /\ Len(input.daily.time) = 7
    /\ Len(input.daily.tmax) = 6
    /\ Len(input.daily.tmin) = 0
    /\ Len(input.daily.code) = 8
    /\ Len(output.value) = 7
    /\ output.value[7].temperature_max = NoneVal
    /\ output.value[6].temperature_max = Some(2100)
    /\ output.value[6].condition = "clear"
    /\ output.value[7].condition = "thunderstorm"

\* the estimator's inputs as the claim reads them
InDaylight == Val(input.sunrise) <= input.clock /\ input.clock <= Val(input.sunset)
CurrentHour == input.clock % 24
ClearOrSunText == input.weather_condition \in {"Clear", "Sunny"}
CloudText == input.weather_condition = "Clouds"

\* C23: with sunrise and sunset both available the estimate is
\* "None (Night)" outside [sunrise, sunset]; in daylight at hours 10..16
\* "High (7-9)" for a clear or sunny condition, "Moderate (4-6)" for a
\* cloudy one and "Low (2-4)" otherwise; in daylight at hours 6..9 and
\* 17..20 "Moderate (3-5)"; in daylight at any other hour "Low (1-3)".
C23_EstimateTable ==
    (Applied("calculate_uv_index_estimate")
        /\ Available(input.sunrise) /\ Available(input.sunset)) =>
        output.value.text =
            IF ~InDaylight THEN "None (Night)"
            ELSE IF CurrentHour \in 10..16
                 THEN (IF ClearOrSunText THEN "High (7-9)"
                       ELSE IF CloudText THEN "Moderate (4-6)"
                       ELSE "Low (2-4)")
            ELSE IF CurrentHour \in (6..9) \cup (17..20) THEN "Moderate (3-5)"
            ELSE "Low (1-3)"

C23_Witness ==
    /\ Applied("calculate_uv_index_estimate")
    /\ Available(input.sunrise) /\ Available(input.sunset)
    /\ InDaylight
    /\ CurrentHour = 16
    /\ input.weather_condition = "Sunny"
    /\ output.value = UvText("High (7-9)")

\* the snapshot parse_weather_data returned, and the reading it was given
ParsedSnapshot ==
    Applied("parse_weather_data") /\ Returned(output) /\ ~IsNone(output.value)
Reading == Val(input.data.main.temp)

\* C24: the snapshot's temperature is the reading less 273.15 truncated
\* to an integer: 293.15 K gives 20 and every whole-degree reading
\* n + 273.15 K gives n.
C24_WholeDegreesExact ==
    ParsedSnapshot =>
        /\ Val(output.value).temperature = TruncDiv(Reading - 27315, 100)
        /\ (Reading = 29315 => Val(output.value).temperature = 20)

\* C30: whenever parse_hourly_forecast returns, the list it returns has
\* 0 or 24 entries; a failure while the slots are built leaves no
\* partial series of 1 to 23 points.
C30_NeverPartial ==
    (Applied("parse_hourly_forecast") /\ Returned(output)) =>
        Len(output.value) \in {0, 24}

\* a forecast with samples whose first slot cannot be built
C30_Witness ==
    /\ Applied("parse_hourly_forecast")
    /\ WellFormedForecast(input.forecast_data)
    /\ Len(input.forecast_data.list) >= 2
    /\ input.clock < input.forecast_data.list[1].dt
    /\ output = Return(<<>>)

\* C27: a fetch_weather call that passes validation emits on_loading(True)
\* first, then exactly one of on_success and on_error, then
\* on_loading(False) last, whichever way get_weather_info ended, and it
\* returns True exactly when the one event is on_success.
C27_LoadingBracketsOneResult ==
    (CtlReturned /\ validate_city_input(controller.arg).is_valid) =>
        /\ Len(controller.events) = 3
        /\ controller.events[1] = OnLoading(TRUE)
        /\ controller.events[2].event \in {"on_success", "on_error"}
        /\ controller.events[3] = OnLoading(FALSE)
        /\ (controller.result = Some(TRUE)
               <=> controller.events[2].event = "on_success")

----------------------------------------------------------------------------
(* Properties of the window's session, stated for SpecSession *)

\* the characters a city name may hold, and the names that fail validation
AllowedCharacters ==
    {Lowercase[k] : k \in 1..26} \cup {Uppercase[k] : k \in 1..26}
    \cup {" ", "-", "'", "a-umlaut", "o-umlaut", "u-umlaut",
          "A-umlaut", "O-umlaut", "U-umlaut", "sharp-s"}
Blank(c) == \A i \in 1..Len(c) : IsSpace(c[i])
FailsValidation(c) ==
    \/ Blank(c)
    \/ Len(Trimmed(c)) < 2
    \/ Len(Trimmed(c)) > 100
    \/ \E i \in 1..Len(c) : c[i] \notin AllowedCharacters

\* C25: a fetch_weather call whose city fails validation emits on_error
\* titled "Invalid Input" and nothing else (no on_loading), returns
\* False, never calls get_weather_info and leaves current_city and
\* current_weather_data as they were.
C25_InvalidInputRejected ==
    \A k \in 1..Len(session.log) :
        (session.log[k].kind = "fetch" /\ FailsValidation(session.log[k].city)) =>
            /\ Len(session.log[k].events) = 1
            /\ session.log[k].events[1].event = "on_error"
            /\ session.log[k].events[1].title = "Invalid Input"
            /\ session.log[k].result = Some(FALSE)
            /\ session.log[k].outcome = NoneVal
            /\ session.log[k].after = Some(session.log[k].before)

C25_Witness ==
    /\ Len(session.log) = 2
    /\ session.log[1].result = Some(TRUE)
    /\ session.log[2].city = LongName(101)
    /\ session.log[2].events = <<OnError("Invalid Input", "City name is too long")>>
    /\ controller.current_city = Some(session.log[1].city)
    /\ controller.result = Some(FALSE)

\* the record the view last rendered and the aggregator result inside it
Rendered == Val(session.view.rendered)

\* C26: once a fetch has succeeded with a non-empty hourly (daily) series,
\* the record given to on_success holds the series under the key the view
\* reads and the hourly (daily) cards show the series index by index.
C26_CardsShowSeries ==
    (session.view.showing = "weather") =>
        /\ (Rendered.raw.hourly_forecast # <<>> =>
               /\ DictGet(Rendered, "hourly_forecast", <<>>) = Rendered.raw.hourly_forecast
               /\ \A i \in 1..Len(Rendered.raw.hourly_forecast) :
                     /\ session.view.hourly[i].time
                           = Some(Rendered.raw.hourly_forecast[i].time)
                     /\ session.view.hourly[i].temp
                           = Some(RoundRat(Rendered.raw.hourly_forecast[i].temperature)))
        /\ (Rendered.raw.daily_forecast # <<>> =>
               /\ DictGet(Rendered, "daily_forecast", <<>>) = Rendered.raw.daily_forecast
               /\ \A i \in 1..Len(Rendered.raw.daily_forecast) :
                     session.view.daily[i].day = Some(Rendered.raw.daily_forecast[i].day))

\* the requests for which get_weather_info returned data, and the one of
\* them whose call returned last
GotData(e) ==
    IF e.stamp = 0 THEN FALSE
    ELSE Returned(Val(e.outcome)) /\ ~IsNone(Val(e.outcome).value)
DataOf(e) == Val(Val(e.outcome).value)
WithData == {k \in 1..Len(session.log) : GotData(session.log[k])}
LatestWithData ==
    CHOOSE k \in WithData :
        \A j \in WithData : session.log[j].stamp <= session.log[k].stamp

StoredPairIsLatest ==
    IF WithData = {} THEN Current(controller) = <<NoneVal, NoneVal>>
    ELSE /\ controller.current_city = Some(session.log[LatestWithData].city)
         /\ controller.current_weather_data
               = Some(DataOf(session.log[LatestWithData]))

\* a step in which a call returns False
ReturnsFalse ==
    \E k \in 1..Len(session'.log) :
        /\ session'.log[k].result = Some(FALSE)
        /\ IF k > Len(session.log) THEN TRUE ELSE session.log[k].result = NoneVal
FailedCallKeepsPair == ReturnsFalse => Current(controller') = Current(controller)

LastRequest == session.log[Len(session.log)]

\* C29: when city B is requested while the fetch of city A is in
\* progress, then once every request has completed current_city and the
\* weather in the view are those of B, the city requested last.
C29_LastRequestWins ==
    (session.frames = <<>> /\ Len(session.log) >= 2
        /\ LastRequest.depth > 0 /\ LastRequest.result = Some(TRUE)) =>
        /\ controller.current_city = Some(LastRequest.city)
        /\ controller.current_weather_data = Some(DataOf(LastRequest))
        /\ session.view.city_label = Some(Title(LastRequest.city, 1))
        /\ session.view.temp_label = Some(DataOf(LastRequest).temperature)

====
